---- MODULE Spec2Model ----
(***************************************************************************)
(* Mammography analysis pipeline and its assistant (analyser.py, tools.py,  *)
(* config.py, agent.py).                                                   *)
(*                                                                         *)
(* Units.  ratio_percent and suspicion_index are floats with one decimal   *)
(* of interest; they are held here as integers:                            *)
(*   ratio      in tenths of a percent   (5.0 %  is 50)                    *)
(*   suspicion  in thousandths of a point (20.0  is 20000)                 *)
(* The clamp bounds of config.py are fractions; they are held in           *)
(* thousandths (0.01 is 10, 0.80 is 800), the crop fraction in hundredths. *)
(*                                                                         *)
(* An image is described by what the OpenCV calls of the pipeline report   *)
(* about it: whether it decodes, its native size relative to the working   *)
(* resolution, and the connected components ("blobs") of the mask after    *)
(* thresholding and morphology, in label (scan) order, each with its pixel *)
(* area, its first moments and the Laplacian variance of its mask.         *)
(***************************************************************************)
EXTENDS Integers, Sequences, FiniteSets, TLC

VARIABLES
    last_analysis,   \* analyser._last_analysis
    annotated,       \* files of ANNOTATED_DIR, by file name
    reports,         \* files of REPORTS_DIR, by file name
    call,            \* per thread: the activation of analyze_image
    expl,            \* the activation of explain_suspicious_zone
    probe,           \* one pass through the stages of analyze_image, stage by stage
    input_dir,       \* files of INPUT_DIR, oldest first (order of st_mtime)
    agent,           \* the Agent instance: last_ratio, last_region, last_image
    messages,        \* the conversation list main.py hands to process_message
    reply,           \* what the last process_message call was given and returned
    dirs,            \* directories that exist under the project root
    ens,             \* per thread: the activation of ensure_dir
    ui               \* the front end: awaiting_email_consent, the line read, e-mails since it was set

vars == <<last_analysis, annotated, reports, call, expl, probe,
          input_dir, agent, messages, reply, dirs, ens, ui>>

\* What the analyser's own operations never touch.
agentVars == <<input_dir, agent, messages, reply, ui>>
dirVars == <<dirs, ens>>

----------------------------------------------------------------------------
(* config.py *)

TARGET_W == 1536
TARGET_H == 1024
BORDER_CROP_PCT == 2
MIN_COMPONENT_AREA == 250
MIN_SUSPICIOUS_RATIO == 10
MAX_SUSPICIOUS_RATIO == 800

None == "None"

----------------------------------------------------------------------------
(* Arithmetic helpers *)

\* Sum of field f over the records of sequence s.
RECURSIVE SumField(_, _)
SumField(s, f) == IF s = <<>> THEN 0 ELSE Head(s)[f] + SumField(Tail(s), f)

\* Python's round(): to nearest, ties to even; n/d with n >= 0, d > 0.
PyRound(n, d) ==
    LET q == n \div d
        r == n % d
    IN  IF 2 * r < d THEN q
        ELSE IF 2 * r > d THEN q + 1
        ELSE IF q % 2 = 0 THEN q ELSE q + 1

\* The last index of a maximal element.
ArgMaxLast(areas) ==
    CHOOSE i \in 1..Len(areas) :
        /\ \A j \in 1..Len(areas) : areas[j] <= areas[i]
        /\ \A j \in (i + 1)..Len(areas) : areas[j] < areas[i]

\* numpy.argmax: the first index (1-based here) of a maximal element.
ArgMaxFirst(areas) ==
    CHOOSE i \in 1..Len(areas) :
        /\ \A j \in 1..Len(areas) : areas[j] <= areas[i]
        /\ \A j \in 1..(i - 1) : areas[j] < areas[i]

----------------------------------------------------------------------------
(* Text helpers: Python's str and path operations on file names and chat    *)
(* text.  Strings are ASCII; the emoji and typographic dashes of the       *)
(* program's literals are left out of the literals held here.              *)

\* part in text
In(part, text) ==
    \E i \in 1..(Len(text) - Len(part) + 1) : SubSeq(text, i, i + Len(part) - 1) = part

LowerChar(c) ==
    CASE c = "A" -> "a" [] c = "B" -> "b" [] c = "C" -> "c" [] c = "D" -> "d"
      [] c = "E" -> "e" [] c = "F" -> "f" [] c = "G" -> "g" [] c = "H" -> "h"
      [] c = "I" -> "i" [] c = "J" -> "j" [] c = "K" -> "k" [] c = "L" -> "l"
      [] c = "M" -> "m" [] c = "N" -> "n" [] c = "O" -> "o" [] c = "P" -> "p"
      [] c = "Q" -> "q" [] c = "R" -> "r" [] c = "S" -> "s" [] c = "T" -> "t"
      [] c = "U" -> "u" [] c = "V" -> "v" [] c = "W" -> "w" [] c = "X" -> "x"
      [] c = "Y" -> "y" [] c = "Z" -> "z" [] OTHER -> c

\* str.lower()
RECURSIVE Lower(_)
Lower(s) ==
    IF Len(s) <= 1 THEN LowerChar(s)
    ELSE Lower(SubSeq(s, 1, Len(s) \div 2)) \o Lower(SubSeq(s, Len(s) \div 2 + 1, Len(s)))

\* str.strip(), for blanks
RECURSIVE Strip(_)
Strip(s) ==
    IF s = "" THEN ""
    ELSE IF SubSeq(s, 1, 1) = " " THEN Strip(SubSeq(s, 2, Len(s)))
    ELSE IF SubSeq(s, Len(s), Len(s)) = " " THEN Strip(SubSeq(s, 1, Len(s) - 1))
    ELSE s

\* Index of the last "." of a file name, 0 when it has none.
LastDot(p) ==
    LET dots == { i \in 1..Len(p) : SubSeq(p, i, i) = "." }
    IN  IF dots = {} THEN 0 ELSE CHOOSE i \in dots : \A j \in dots : j <= i

\* Path(p).stem and os.path.splitext(os.path.basename(p))[0]; they agree on
\* every name that does not end in a dot.  A leading dot starts no suffix.
Stem(p) == IF LastDot(p) <= 1 THEN p ELSE SubSeq(p, 1, LastDot(p) - 1)

\* Path(p).suffix and os.path.splitext(p)[1]
Ext(p) == IF LastDot(p) <= 1 THEN "" ELSE SubSeq(p, LastDot(p), Len(p))

\* Characters of file names in code-point order, for sorted().
Alphabet == "-./0123456789ABCDEFGHIJKLMNOPQRSTUVWXYZ_abcdefghijklmnopqrstuvwxyz"

Ord(c) == CHOOSE i \in 1..Len(Alphabet) : SubSeq(Alphabet, i, i) = c

\* a < b for Python strings
RECURSIVE StrLess(_, _)
StrLess(a, b) ==
    IF b = "" THEN FALSE
    ELSE IF a = "" THEN TRUE
    ELSE IF SubSeq(a, 1, 1) = SubSeq(b, 1, 1)
         THEN StrLess(SubSeq(a, 2, Len(a)), SubSeq(b, 2, Len(b)))
    ELSE Ord(SubSeq(a, 1, 1)) < Ord(SubSeq(b, 1, 1))

\* sorted(S) for a set of strings
RECURSIVE Sorted(_)
Sorted(S) ==
    IF S = {} THEN <<>>
    ELSE LET m == CHOOSE x \in S : \A y \in S : y = x \/ StrLess(x, y)
         IN  <<m>> \o Sorted(S \ {m})

----------------------------------------------------------------------------
(* 1) PREPROCESS: resize to TARGET_SIZE, equalize, crop the border.  The    *)
(* result is the working buffer: its shape and the blobs the segmenter's   *)
(* threshold and morphology will find in it.                               *)

\* Lines 58-61: crop_y = int(h * pct), crop_x = int(w * pct) for a fraction
\* pct = n / d, and gray[crop_y:-crop_y, crop_x:-crop_x] when both are
\* positive: an empty slice along an axis whose two margins meet.
border_crop(height, width, n, d) ==
    LET crop_y == (height * n) \div d
        crop_x == (width * n) \div d
        cropped == crop_y > 0 /\ crop_x > 0
    IN  [h |-> IF cropped
               THEN (IF height - 2 * crop_y > 0 THEN height - 2 * crop_y ELSE 0)
               ELSE height,
         w |-> IF cropped
               THEN (IF width - 2 * crop_x > 0 THEN width - 2 * crop_x ELSE 0)
               ELSE width]

preprocess(img) ==
    LET gray == border_crop(TARGET_H, TARGET_W, BORDER_CROP_PCT, 100)
    IN  [h |-> gray.h, w |-> gray.w,
         blobs |-> IF gray.h * gray.w = 0 THEN <<>> ELSE img.blobs]

----------------------------------------------------------------------------
(* 2) SEGMENT *)

\* A filter that also drops a component of exactly the minimum area.
AreaAboveMin(c) == c.area > MIN_COMPONENT_AREA

AreaAtLeastMin(c) == c.area >= MIN_COMPONENT_AREA

\* Lines 85-90: label the components, keep those of area >= MIN_COMPONENT_AREA.
segment_suspicious(gray) ==
    [h |-> gray.h, w |-> gray.w, comps |-> SelectSeq(gray.blobs, AreaAtLeastMin)]

\* np.count_nonzero(mask)
count_nonzero(mask) == SumField(mask.comps, "area")

largest_component(mask) ==
    LET num == Len(mask.comps) + 1          \* label 0 is the background
    IN  IF num <= 2 THEN mask
        ELSE LET areas == [i \in 1..Len(mask.comps) |-> mask.comps[i].area]
                 idx == ArgMaxFirst(areas)
             IN  [mask EXCEPT !.comps = <<mask.comps[idx]>>]

----------------------------------------------------------------------------
(* 3) QUANTIFY & LOCALIZE *)

\* The mutants below change one line of the function that follows them.
ratio_percent_no_ceiling(mask) ==
    LET total == mask.h * mask.w
        suspicious == count_nonzero(mask)
    IN  IF total = 0 THEN 0
        ELSE IF 1000 * suspicious < MIN_SUSPICIOUS_RATIO * total
             THEN MIN_SUSPICIOUS_RATIO
        ELSE PyRound(1000 * suspicious, total)

ratio_percent_no_floor(mask) ==
    LET total == mask.h * mask.w
        suspicious == count_nonzero(mask)
    IN  IF total = 0 THEN 0
        ELSE IF 1000 * suspicious > MAX_SUSPICIOUS_RATIO * total
             THEN MAX_SUSPICIOUS_RATIO
        ELSE PyRound(1000 * suspicious, total)

\* np.clip(suspicious / total, MIN, MAX), then round(ratio * 100.0, 1).
ratio_percent_from_mask(mask) ==
    LET total == mask.h * mask.w
        suspicious == count_nonzero(mask)
    IN  IF total = 0 THEN 0
        ELSE IF 1000 * suspicious < MIN_SUSPICIOUS_RATIO * total
             THEN MIN_SUSPICIOUS_RATIO
        ELSE IF 1000 * suspicious > MAX_SUSPICIOUS_RATIO * total
             THEN MAX_SUSPICIOUS_RATIO
        ELSE PyRound(1000 * suspicious, total)

ClassA == "A - Almost entirely fatty"
ClassB == "B - Scattered fibroglandular"
ClassC == "C - Heterogeneously dense"
ClassD == "D - Extremely dense"

density_class_upper_inclusive(ratio) ==
    IF ratio <= 50 THEN ClassA
    ELSE IF ratio <= 150 THEN ClassB
    ELSE IF ratio <= 350 THEN ClassC
    ELSE ClassD

density_class_from_ratio(ratio) ==
    IF ratio < 50 THEN ClassA
    ELSE IF ratio < 150 THEN ClassB
    ELSE IF ratio < 350 THEN ClassC
    ELSE ClassD

\* agent.py, the ladder inlined in handle_extended_commands.
agent_density_class(ratio) ==
    IF ratio < 50 THEN ClassA
    ELSE IF ratio < 150 THEN ClassB
    ELSE IF ratio < 350 THEN ClassC
    ELSE ClassD

\* agent.py, the ladder inlined in Agent.process_message.
agent_scan_density_class(ratio) ==
    IF ratio < 50 THEN ClassA
    ELSE IF ratio < 150 THEN ClassB
    ELSE IF ratio < 350 THEN ClassC
    ELSE ClassD

\* cv2.Laplacian(mask, CV_64F).var(): 0 for a uniform mask, else what the
\* image reports for the mask's components.
laplacian_var(mask) == SumField(mask.comps, "lapvar")

\* An index that is not clipped.
suspicion_index_unclipped(mask, ratio) == 60 * ratio + 4 * laplacian_var(mask)

\* idx = 0.6 * ratio_percent + 0.004 * v, clipped to [0, 100]; in thousandths.
suspicion_index(mask, ratio) ==
    LET idx == 60 * ratio + 4 * laplacian_var(mask)
    IN  IF idx < 0 THEN 0 ELSE IF idx > 100000 THEN 100000 ELSE idx

\* cv2.moments(mask, binaryImage=True)
moments(mask) ==
    [m00 |-> SumField(mask.comps, "area"),
     m10 |-> SumField(mask.comps, "m10"),
     m01 |-> SumField(mask.comps, "m01")]

ZeroDivisionError == [exc |-> "ZeroDivisionError"]
IsExc(x) == "exc" \in DOMAIN x

\* A labelling that counts a centroid on a mid-line as upper / inner.
QuadrantMidlineInclusive(cx, cy, w, h) ==
    LET vertical == IF 2 * cy <= h THEN "upper" ELSE "lower"
        horizontal == IF 2 * cx <= w THEN "inner" ELSE "outer"
    IN  [region |-> vertical \o "-" \o horizontal \o " quadrant", cx |-> cx, cy |-> cy]

\* Lines 141-143
Quadrant(cx, cy, w, h) ==
    LET vertical == IF 2 * cy < h THEN "upper" ELSE "lower"
        horizontal == IF 2 * cx < w THEN "inner" ELSE "outer"
    IN  [region |-> vertical \o "-" \o horizontal \o " quadrant", cx |-> cx, cy |-> cy]

centroid_unguarded(mask) ==
    LET M == moments(mask)
    IN  IF M.m00 = 0 THEN ZeroDivisionError
        ELSE Quadrant(M.m10 \div M.m00, M.m01 \div M.m00, mask.w, mask.h)

centroid_and_quadrant(mask) ==
    LET M == moments(mask)
    IN  IF M.m00 = 0
        THEN Quadrant(mask.w \div 2, mask.h \div 2, mask.w, mask.h)
        ELSE Quadrant(M.m10 \div M.m00, M.m01 \div M.m00, mask.w, mask.h)

----------------------------------------------------------------------------
(* Input images *)

MaxBlobs == 2          \* blobs per image in the stage-by-stage runs
MaxRatioInput == 1000  \* ratios handed to the density ladders: 0.0 .. 100.0

\* A blob of the working mask: pixel area, first moments about the origin
\* (pixel centres, so the centroid of a blob at (cx, cy) truncates to it),
\* and the Laplacian variance of a mask holding it alone.
Comp(area, cx, cy, lapvar) ==
    [area |-> area,
     m10 |-> area * cx + area \div 2,
     m01 |-> area * cy + area \div 2,
     lapvar |-> lapvar]

\* The working buffer is 984 x 1476 = 1452384 pixels, mid-lines at x = 738, y = 492.
Shapes ==
    { Comp(100, 300, 200, 40),            \* below the minimum area
      Comp(249, 1000, 700, 90),           \* just below the minimum area
      Comp(250, 300, 200, 90),            \* exactly the minimum area
      Comp(250, 1000, 700, 90),           \* the same area in another quadrant
      Comp(14524, 1000, 200, 700),        \* 1.0 %
      Comp(72619, 738, 492, 1500),        \* 5.0 %, centroid on both mid-lines
      Comp(217858, 300, 700, 5000),       \* 15.0 %
      Comp(508334, 737, 491, 9000),       \* 35.0 %
      Comp(1200000, 700, 500, 20000),     \* above the 80 % ceiling
      Comp(1452384, 737, 491, 0) }        \* every pixel foreground

BlobSeqs(n) == UNION { [1..k -> Shapes] : k \in 0..n }

\* Native resolution as a linear scale ln/ld of the working resolution.
Scales == { <<1, 1>>, <<1, 20>> }

Image(decode, blobs, scale) == [decode |-> decode, blobs |-> blobs, scale |-> scale]

WorkingPixels ==
    LET gray == preprocess(Image("ok", <<>>, <<1, 1>>)) IN gray.h * gray.w

Unreadable == Image("unreadable", <<>>, <<1, 1>>)    \* not parseable
ZeroPixels == Image("empty", <<>>, <<1, 1>>)         \* parses, holds no pixel

ProbeImages ==
    { Image("ok", b, sc) : b \in { x \in BlobSeqs(MaxBlobs) : SumField(x, "area") <= WorkingPixels },
                           sc \in Scales }
    \cup { Unreadable, ZeroPixels }

----------------------------------------------------------------------------
(* tools.py *)

Paths == { "a.png", "a.dcm", "b.png" }

\* load_image_any, lines 46-48
IsDicom(p) == Ext(Lower(p)) \in { ".dcm", ".dicom" }

\* A loader that stands a blank image in for an undecodable file.
load_image_any_fallback(path, img) ==
    IF img.decode = "ok" THEN img ELSE Image("ok", <<>>, <<1, 1>>)

\* pydicom.dcmread / pixel_array raise on an unparseable or empty file;
\* cv2.imread returns None for both, which line 61 turns into ValueError.
load_image_any(path, img) ==
    IF img.decode = "ok" THEN img
    ELSE IF IsDicom(path)
         THEN [exc |-> IF img.decode = "unreadable" THEN "InvalidDicomError" ELSE "ValueError"]
         ELSE [exc |-> "ValueError"]

ANNOTATED_DIR == "output/annotated"
REPORTS_DIR == "output/reports"

\* An output name that keeps the extension of the source file.
annotated_path_with_suffix(p) == ANNOTATED_DIR \o "/annotated_" \o p \o ".jpg"

\* tools.py lines 70-76
annotated_path(p) == ANNOTATED_DIR \o "/annotated_" \o Stem(p) \o ".jpg"

\* save_report, lines 87-88
report_path(p) == REPORTS_DIR \o "/report_" \o Stem(p) \o ".txt"

----------------------------------------------------------------------------
(* 4) ANNOTATE *)

\* cv2.resize(work_mask, native size, INTER_NEAREST): areas scale with the
\* square of the linear scale, a blob may vanish.
ResizeComp(c, sc) ==
    LET a == (c.area * sc[1] * sc[1]) \div (sc[2] * sc[2])
        cx == ((c.m10 \div c.area) * sc[1]) \div sc[2]
        cy == ((c.m01 \div c.area) * sc[1]) \div sc[2]
    IN  [area |-> a, m10 |-> a * cx + a \div 2, m01 |-> a * cy + a \div 2, lapvar |-> c.lapvar]

NonEmpty(c) == c.area > 0

resize_mask(mask, sc) ==
    [h |-> (mask.h * sc[1]) \div sc[2],
     w |-> (mask.w * sc[1]) \div sc[2],
     comps |-> SelectSeq([i \in 1..Len(mask.comps) |-> ResizeComp(mask.comps[i], sc)], NonEmpty)]

annotate_image(original, work_mask, ratio, region_desc, dens_class, susp_idx) ==
    LET mask_resized == resize_mask(work_mask, original.scale)
        boxes == Len(SelectSeq(mask_resized.comps, AreaAtLeastMin))   \* lines 160-165
        M == moments(mask_resized)
        marker == IF M.m00 > 0
                  THEN <<M.m10 \div M.m00, M.m01 \div M.m00>>
                  ELSE None
    IN  [boxes |-> boxes, marker |-> marker,
         panel |-> <<ratio, dens_class, region_desc>>]

----------------------------------------------------------------------------
(* 5) analyze_image, lines 190-200: everything up to the first write.       *)
(* An exception raised by a stage is the result.                           *)

\* An analysis that will not redo a scan whose annotated image is on disk.
compute_once_per_scan(image_path, file) ==
    LET bgr == load_image_any(image_path, file)
    IN  IF IsExc(bgr) THEN bgr
        ELSE IF annotated_path(image_path) \in DOMAIN annotated
             THEN [exc |-> "FileExistsError"]
        ELSE
        LET gray == preprocess(bgr)
            mask == segment_suspicious(gray)
            mask_main == IF count_nonzero(mask) > 0 THEN largest_component(mask) ELSE mask
            ratio == ratio_percent_from_mask(mask)
            dens_class == density_class_from_ratio(ratio)
            susp_idx == suspicion_index(mask_main, ratio)
            loc == centroid_and_quadrant(IF count_nonzero(mask_main) # 0 THEN mask_main ELSE mask)
        IN  IF IsExc(loc) THEN loc
            ELSE [ratio |-> ratio, density |-> dens_class, suspicion_index |-> susp_idx,
                  region |-> loc.region,
                  annotated_img |-> annotate_image(bgr, mask_main, ratio, loc.region,
                                                   dens_class, susp_idx)]

compute(image_path, file) ==
    LET bgr == load_image_any(image_path, file)
    IN  IF IsExc(bgr) THEN bgr
        ELSE
        LET gray == preprocess(bgr)
            mask == segment_suspicious(gray)
            mask_main == IF count_nonzero(mask) > 0 THEN largest_component(mask) ELSE mask
            ratio == ratio_percent_from_mask(mask)
            dens_class == density_class_from_ratio(ratio)
            susp_idx == suspicion_index(mask_main, ratio)
            loc == centroid_and_quadrant(IF count_nonzero(mask_main) # 0 THEN mask_main ELSE mask)
        IN  IF IsExc(loc) THEN loc
            ELSE [ratio |-> ratio, density |-> dens_class, suspicion_index |-> susp_idx,
                  region |-> loc.region,
                  annotated_img |-> annotate_image(bgr, mask_main, ratio, loc.region,
                                                   dens_class, susp_idx)]

----------------------------------------------------------------------------
(* One pass through analyze_image, lines 190-200, a stage at a time, and    *)
(* the density ladders applied to a bare ratio.                            *)

ProbeIdle == [stage |-> "idle"]

PLoad ==
    /\ probe.stage = "idle"
    /\ \E p \in Paths, f \in ProbeImages :
          LET bgr == load_image_any(p, f)
          IN  probe' = IF IsExc(bgr)
                       THEN [stage |-> "raised", path |-> p, file |-> f, exc |-> bgr.exc]
                       ELSE [stage |-> "loaded", path |-> p, file |-> f, bgr |-> bgr]
    /\ UNCHANGED <<last_analysis, annotated, reports, call, expl, agentVars, dirVars>>

PPreprocess ==
    /\ probe.stage = "loaded"
    /\ probe' = [stage |-> "preprocessed", path |-> probe.path, file |-> probe.file,
                 bgr |-> probe.bgr, gray |-> preprocess(probe.bgr)]
    /\ UNCHANGED <<last_analysis, annotated, reports, call, expl, agentVars, dirVars>>

PSegment ==
    /\ probe.stage = "preprocessed"
    /\ LET mask == segment_suspicious(probe.gray)
       IN  probe' = [stage |-> "segmented", path |-> probe.path, file |-> probe.file,
                     bgr |-> probe.bgr, gray |-> probe.gray, mask |-> mask,
                     mask_main |-> IF count_nonzero(mask) > 0
                                   THEN largest_component(mask) ELSE mask]
    /\ UNCHANGED <<last_analysis, annotated, reports, call, expl, agentVars, dirVars>>

PQuantify ==
    /\ probe.stage = "segmented"
    /\ LET ratio == ratio_percent_from_mask(probe.mask)
       IN  probe' = [stage |-> "quantified", path |-> probe.path, file |-> probe.file,
                     bgr |-> probe.bgr, gray |-> probe.gray, mask |-> probe.mask,
                     mask_main |-> probe.mask_main,
                     ratio |-> ratio,
                     density |-> density_class_from_ratio(ratio),
                     suspicion_index |-> suspicion_index(probe.mask_main, ratio)]
    /\ UNCHANGED <<last_analysis, annotated, reports, call, expl, agentVars, dirVars>>

PLocalize ==
    /\ probe.stage = "quantified"
    /\ LET loc == centroid_and_quadrant(IF count_nonzero(probe.mask_main) # 0
                                        THEN probe.mask_main ELSE probe.mask)
       IN  probe' = IF IsExc(loc)
                    THEN [stage |-> "raised", path |-> probe.path, file |-> probe.file,
                          exc |-> loc.exc]
                    ELSE [stage |-> "localized", path |-> probe.path, file |-> probe.file,
                          bgr |-> probe.bgr, mask |-> probe.mask,
                          mask_main |-> probe.mask_main, ratio |-> probe.ratio,
                          density |-> probe.density,
                          suspicion_index |-> probe.suspicion_index,
                          region |-> loc.region, centroid |-> <<loc.cx, loc.cy>>]
    /\ UNCHANGED <<last_analysis, annotated, reports, call, expl, agentVars, dirVars>>

PAnnotate ==
    /\ probe.stage = "localized"
    /\ probe' = [stage |-> "annotated", path |-> probe.path, file |-> probe.file,
                 mask |-> probe.mask, mask_main |-> probe.mask_main,
                 ratio |-> probe.ratio, density |-> probe.density,
                 suspicion_index |-> probe.suspicion_index, region |-> probe.region,
                 annotated_img |-> annotate_image(probe.bgr, probe.mask_main, probe.ratio,
                                                  probe.region, probe.density,
                                                  probe.suspicion_index)]
    /\ UNCHANGED <<last_analysis, annotated, reports, call, expl, agentVars, dirVars>>

\* Ratios, in tenths of a percent, and dominant masks the index is computed for.
IndexRatios == { 0, 10, 49, 50, 350, 800, 1000 }
IndexMasks ==
    { [h |-> 984, w |-> 1476, comps |-> c] :
          c \in { <<>> } \cup { << x >> : x \in Shapes } }

\* suspicion_index on two pairs of a dominant mask and a ratio
PIndex ==
    /\ probe.stage = "idle"
    /\ \E m1 \in IndexMasks, m2 \in IndexMasks, r1 \in IndexRatios, r2 \in IndexRatios :
          probe' = [stage |-> "indexed",
                    a |-> [ratio |-> r1, v |-> laplacian_var(m1), idx |-> suspicion_index(m1, r1)],
                    b |-> [ratio |-> r2, v |-> laplacian_var(m2), idx |-> suspicion_index(m2, r2)]]
    /\ UNCHANGED <<last_analysis, annotated, reports, call, expl, agentVars, dirVars>>

MaxCropPermille == 520

\* preprocess's crop under a BORDER_CROP_PCT of n thousandths
PCrop ==
    /\ probe.stage = "idle"
    /\ \E n \in 0..MaxCropPermille :
          probe' = [stage |-> "cropped", permille |-> n,
                    gray |-> border_crop(TARGET_H, TARGET_W, n, 1000)]
    /\ UNCHANGED <<last_analysis, annotated, reports, call, expl, agentVars, dirVars>>

\* density_class_from_ratio and the agent's inlined ladders on the same ratio.
PClassify ==
    /\ probe.stage = "idle"
    /\ \E r \in 0..MaxRatioInput :
          probe' = [stage |-> "classified", ratio |-> r,
                    density |-> density_class_from_ratio(r),
                    agent_density |-> agent_density_class(r),
                    agent_scan_density |-> agent_scan_density_class(r)]
    /\ UNCHANGED <<last_analysis, annotated, reports, call, expl, agentVars, dirVars>>

----------------------------------------------------------------------------
(* The running program: threads calling analyze_image, a thread calling    *)
(* explain_suspicious_zone, the output directories.                        *)

Threads == { "t1", "t2" }

\* What the input folder may hold when a call reads a file.
EmptyMask == Image("ok", <<>>, <<1, 1>>)
TwoRegions == Image("ok", <<Comp(72619, 738, 492, 1500), Comp(508334, 737, 491, 9000)>>, <<1, 1>>)

\* A region at the minimum area in a scan whose native size is 1/20 of the
\* working size: it vanishes when the mask is resized for annotation.
SmallNative == Image("ok", <<Comp(250, 300, 200, 90)>>, <<1, 20>>)

Files == { Unreadable, ZeroPixels, EmptyMask, TwoRegions, SmallNative }

\* One caller: any path may hold any of the files when it is read.
Inputs == Paths \X Files

\* Concurrent callers: the input folder holds two scans.
SharedInputs == { <<"a.png", EmptyMask>>, <<"b.png", TwoRegions>> }

CallIdle == [pc |-> "idle"]
ExplIdle == [pc |-> "idle"]

\* analyser.py lines 38-46
NoAnalysis ==
    [file |-> None, ratio |-> None, region |-> None, density |-> None,
     suspicion_index |-> None, annotation_path |-> None, report_path |-> None]

\* agent.py lines 260-264
NewAgent == [last_ratio |-> None, last_region |-> None, last_image |-> None]

NoReply == [input |-> None]
EnsIdle == [pc |-> "idle"]

\* main.py line 140, app.py lines 112-113: no consent is awaited.
UiIdle == [awaiting |-> FALSE, line |-> None, mails |-> 0, tick |-> FALSE, running |-> TRUE]

\* config.py lines 17-23: the folders are created when config is imported.
INPUT_DIR == "input"
OUTPUT_DIR == "output"
ConfigDirs == { INPUT_DIR, OUTPUT_DIR, ANNOTATED_DIR, REPORTS_DIR }

Init ==
    /\ last_analysis = NoAnalysis
    /\ annotated = [n \in {} |-> None]
    /\ reports = [n \in {} |-> None]
    /\ call = [t \in Threads |-> CallIdle]
    /\ expl = ExplIdle
    /\ probe = ProbeIdle
    /\ input_dir = <<>>
    /\ agent = NewAgent
    /\ messages = <<>>
    /\ reply = NoReply
    /\ dirs = ConfigDirs
    /\ ens = [t \in Threads |-> EnsIdle]
    /\ ui = UiIdle

\* f with key k set to v
Put(f, k, v) == [x \in DOMAIN f \cup {k} |-> IF x = k THEN v ELSE f[x]]

AtRest(c) == c.pc \in { "idle", "done" }

\* How a finished call is remembered: what it returned ([value |-> tuple])
\* or raised ([exc |-> kind]), which writes it attempted and how they went,
\* whether it updated _last_analysis.
Done(c, ret, updated) ==
    [pc |-> "done", path |-> c.path, file |-> c.file, res |-> c.res, ret |-> ret,
     img_write |-> c.img_write, rep_write |-> c.rep_write, updated |-> updated]

\* Lines 206-213, and save_report's report_text.strip() + "\n".
tech_report(image_path, res) ==
    << <<"File", image_path>>,
       <<"Suspicious area ratio", res.ratio>>,
       <<"Density class", res.density>>,
       <<"Suspicion index (0-100)", res.suspicion_index>>,
       <<"Region (centroid-based)", res.region>>,
       <<"Disclaimer", "Automatic analysis for research only.">> >>

\* A save_report that strips the text and adds no newline.
save_report_stripped(report_text) == [lines |-> report_text, newline |-> FALSE]

save_report(report_text) == [lines |-> report_text, newline |-> TRUE]

\* A load and compute step that records the file of a call that fails.
ComputeRecordingFile(t, inputs) ==
    /\ AtRest(call[t])
    /\ \E in \in inputs :
          LET p == in[1]
              f == in[2]
              res == compute(p, f)
              c == [pc |-> "computed", path |-> p, file |-> f, res |-> res,
                    img_write |-> "none", rep_write |-> "none"]
          IN  /\ call' = [call EXCEPT ![t] = IF IsExc(res) THEN Done(c, res, FALSE) ELSE c]
              /\ last_analysis' = IF IsExc(res) THEN [last_analysis EXCEPT !.file = p]
                                 ELSE last_analysis
    /\ UNCHANGED <<annotated, reports, expl, probe, agentVars, dirVars>>

\* Lines 190-200: load and compute.  An exception ends the call.
Compute(t, inputs) ==
    /\ AtRest(call[t])
    /\ \E in \in inputs :
          LET p == in[1]
              f == in[2]
              res == compute(p, f)
              c == [pc |-> "computed", path |-> p, file |-> f, res |-> res,
                    img_write |-> "none", rep_write |-> "none"]
          IN  call' = [call EXCEPT ![t] = IF IsExc(res) THEN Done(c, res, FALSE) ELSE c]
    /\ UNCHANGED <<last_analysis, annotated, reports, expl, probe, agentVars, dirVars>>

\* Lines 201-203: ensure_dir(ANNOTATED_DIR) may raise OSError; cv2.imwrite
\* writes the file and returns True, or writes nothing and returns False.
\* The value imwrite returns is not looked at.
WriteImage(t) ==
    /\ call[t].pc = "computed"
    /\ \/ /\ call' = [call EXCEPT ![t] = Done(call[t], [exc |-> "OSError"], FALSE)]
          /\ UNCHANGED annotated
       \/ /\ annotated' = Put(annotated, annotated_path(call[t].path),
                              call[t].res.annotated_img)
          /\ call' = [call EXCEPT ![t].pc = "image_step_done", ![t].img_write = "ok"]
       \/ /\ call' = [call EXCEPT ![t].pc = "image_step_done", ![t].img_write = "failed"]
          /\ UNCHANGED annotated
    /\ UNCHANGED <<last_analysis, reports, expl, probe, agentVars, dirVars>>

\* open(out_path, "w") has truncated the file and f.write has not run.
Truncated == [lines |-> <<>>, newline |-> FALSE]

\* Lines 205-214: ensure_dir(REPORTS_DIR), save_report.  ensure_dir or
\* open() raising OSError ends the call with nothing written; f.write
\* raising it ends the call with the file truncated.
WriteReport(t) ==
    /\ call[t].pc = "image_step_done"
    /\ \/ /\ reports' = Put(reports, report_path(call[t].path),
                            save_report(tech_report(call[t].path, call[t].res)))
          /\ call' = [call EXCEPT ![t].pc = "report_saved", ![t].rep_write = "ok"]
       \/ /\ call' = [call EXCEPT ![t] =
                         Done([call[t] EXCEPT !.rep_write = "failed"], [exc |-> "OSError"], FALSE)]
          /\ UNCHANGED reports
       \/ /\ call' = [call EXCEPT ![t] =
                         Done([call[t] EXCEPT !.rep_write = "failed"], [exc |-> "OSError"], FALSE)]
          /\ reports' = Put(reports, report_path(call[t].path), Truncated)
    /\ UNCHANGED <<last_analysis, annotated, expl, probe, agentVars, dirVars>>

\* Lines 216-228: _last_analysis.update({...}) and return.
SaveContext(t) ==
    /\ call[t].pc = "report_saved"
    /\ LET c == call[t]
       IN  /\ last_analysis' =
                 [file |-> c.path, ratio |-> c.res.ratio, region |-> c.res.region,
                  density |-> c.res.density, suspicion_index |-> c.res.suspicion_index,
                  annotation_path |-> annotated_path(c.path),
                  report_path |-> report_path(c.path)]
           /\ call' = [call EXCEPT ![t] =
                         Done(c, [value |-> <<c.res.ratio, c.res.region,
                                               annotated_path(c.path),
                                               report_path(c.path)>>], TRUE)]
    /\ UNCHANGED <<annotated, reports, expl, probe, agentVars, dirVars>>

----------------------------------------------------------------------------
(* 7) EXPLANATION: one step per read of _last_analysis *)

\* A returned string is the sequence of its parts: text ([s |-> ...]) and
\* formatted numbers ([n |-> ...]).
Sentinel == << [s |-> "No previous analysis available to explain."] >>

severity_of(idx) ==
    IF idx < 20000 THEN "low suspicion"
    ELSE IF idx < 50000 THEN "moderate suspicion"
    ELSE "high suspicion"

explanation_without_class(region, dens, idx) ==
    << [s |-> "The suspicious region lies in the "], [s |-> region],
       [s |-> ". The computed suspicion index is "], [n |-> idx],
       [s |-> ", indicating "], [s |-> severity_of(idx)] >>

\* Lines 269-279: the returned string, as its fixed parts and its fields.
explanation(region, dens, idx) ==
    << [s |-> "The suspicious region lies in the "], [s |-> region],
       [s |-> ", with a density class of "], [s |-> dens],
       [s |-> ". The computed suspicion index is "], [n |-> idx],
       [s |-> ", indicating "], [s |-> severity_of(idx)] >>

Contains(text, part) == \E i \in 1..Len(text) : text[i] = [s |-> part]

\* Line 260
ExplainGuard ==
    /\ AtRest(expl)
    /\ expl' = IF last_analysis.file = None
               THEN [pc |-> "done", out |-> Sentinel]
               ELSE [pc |-> "guard_passed"]
    /\ UNCHANGED <<last_analysis, annotated, reports, call, probe, agentVars, dirVars>>

\* Line 263
ExplainReadRatio ==
    /\ expl.pc = "guard_passed"
    /\ expl' = [pc |-> "ratio_read", ratio |-> last_analysis.ratio]
    /\ UNCHANGED <<last_analysis, annotated, reports, call, probe, agentVars, dirVars>>

\* Line 264
ExplainReadRegion ==
    /\ expl.pc = "ratio_read"
    /\ expl' = [pc |-> "region_read", ratio |-> expl.ratio,
                region |-> last_analysis.region]
    /\ UNCHANGED <<last_analysis, annotated, reports, call, probe, agentVars, dirVars>>

\* Line 265
ExplainReadDensity ==
    /\ expl.pc = "region_read"
    /\ expl' = [pc |-> "density_read", ratio |-> expl.ratio,
                region |-> expl.region, dens |-> last_analysis.density]
    /\ UNCHANGED <<last_analysis, annotated, reports, call, probe, agentVars, dirVars>>

\* Lines 266-279
ExplainReturn ==
    /\ expl.pc = "density_read"
    /\ expl' = [pc |-> "done",
                out |-> explanation(expl.region, expl.dens, last_analysis.suspicion_index)]
    /\ UNCHANGED <<last_analysis, annotated, reports, call, probe, agentVars, dirVars>>

\* The caller is done with the returned string.
ExplainForget ==
    /\ expl.pc = "done"
    /\ expl' = ExplIdle
    /\ UNCHANGED <<last_analysis, annotated, reports, call, probe, agentVars, dirVars>>

----------------------------------------------------------------------------
(* Image enumeration: analyser.get_images, tools.list_input_files and       *)
(* agent.get_target_images.  A folder is the sequence of its entries,       *)
(* oldest first (st_mtime); an entry is [name, file].                       *)

valid_ext == { ".png", ".jpg", ".jpeg", ".dcm" }

HasValidExt(e) == Lower(Ext(e.name)) \in valid_ext

\* analyser.py lines 234-237
get_images(folder) == SelectSeq(folder, HasValidExt)

exts == { ".dcm", ".dicom", ".png", ".jpg", ".jpeg" }

\* tools.py lines 27-35: the sorted paths of the supported files
list_input_files(folder) ==
    Sorted({ INPUT_DIR \o "/" \o folder[i].name :
                 i \in { j \in 1..Len(folder) : Ext(Lower(folder[j].name)) \in exts } })

EndsWith(name, suffix) ==
    /\ Len(name) >= Len(suffix)
    /\ SubSeq(name, Len(name) - Len(suffix) + 1, Len(name)) = suffix

\* INPUT_DIR.glob("*.png"), "*.jpg", "*.dcm": the pattern is matched as
\* written (POSIX), letter case included.
IsPng(e) == EndsWith(e.name, ".png")
IsJpg(e) == EndsWith(e.name, ".jpg")
IsDcm(e) == EndsWith(e.name, ".dcm")
GlobMatch(e) == IsPng(e) \/ IsJpg(e) \/ IsDcm(e)

\* The three globs one after the other, each in the order the directory is read.
globbed(listing) ==
    SelectSeq(listing, IsPng) \o SelectSeq(listing, IsJpg) \o SelectSeq(listing, IsDcm)

\* The orders in which the operating system may list the folder.
DirListings(folder) ==
    LET n == Len(folder)
        perms == { p \in [1..n -> 1..n] : \A i, j \in 1..n : i # j => p[i] # p[j] }
    IN  { [i \in 1..n |-> folder[p[i]]] : p \in perms }

\* agent.py lines 225-253
get_target_images(user_input, folder, listing) ==
    LET text == Strip(Lower(user_input))
        by_mtime == SelectSeq(folder, GlobMatch)
        latest == IF Len(by_mtime) = 0 THEN <<>> ELSE << by_mtime[Len(by_mtime)] >>
        named == { i \in 1..Len(listing) : In(Lower(listing[i].name), text) }
        first_named == CHOOSE i \in named : \A j \in named : i <= j
        images == IF In("all", text) \/ In("each", text) \/ In("every", text)
                      THEN globbed(listing)
                  ELSE IF In("latest", text) \/ In("last", text) \/ In("recent", text)
                      THEN latest
                  ELSE IF named = {} THEN <<>> ELSE << listing[first_named] >>
    IN  IF Len(images) = 0 THEN latest ELSE images

MaxFolder == 2

\* Names a file of the input folder may have.
FileNames ==
    { "a.png", "b.JPG", "c.jpeg", "d.bmp", "e.tif", "f.TIFF", "g.dcm", "h.dicom",
      "i.Dcm", "notes.txt" }

\* Folders of up to n files with different names.
Folders(n) ==
    { f \in UNION { [1..k -> [name : FileNames, file : { Image("ok", <<>>, <<1, 1>>) }]] : k \in 0..n } :
          \A i, j \in 1..Len(f) : i # j => f[i].name # f[j].name }

\* The folder of the command line runs: two scans and a text file.
CliFolders ==
    { << [name |-> "a.png", file |-> Image("ok", <<>>, <<1, 1>>)],
         [name |-> "notes.txt", file |-> Image("unreadable", <<>>, <<1, 1>>)],
         [name |-> "b.dcm", file |-> Image("ok", <<>>, <<1, 1>>)] >> }

\* get_images() on a folder
PGetImages(folders) ==
    /\ probe.stage = "idle"
    /\ \E folder \in folders :
          probe' = [stage |-> "listed", by |-> "get_images", folder |-> folder,
                    images |-> get_images(folder)]
    /\ UNCHANGED <<last_analysis, annotated, reports, call, expl, agentVars, dirVars>>

\* list_input_files() on a folder: the paths
PListInputFiles(folders) ==
    /\ probe.stage = "idle"
    /\ \E folder \in folders :
          probe' = [stage |-> "listed", by |-> "list_input_files", folder |-> folder,
                    files |-> list_input_files(folder)]
    /\ UNCHANGED <<last_analysis, annotated, reports, call, expl, agentVars, dirVars>>

\* Requests that reach get_target_images.
ScanRequests == { "review all", "scan the latest", "scan", "review e.tif" }

\* get_target_images(user_input) on a folder, in an order of the directory
PGetTargetImages(folders) ==
    /\ probe.stage = "idle"
    /\ \E folder \in folders, user_input \in ScanRequests :
          \E listing \in DirListings(folder) :
              probe' = [stage |-> "listed", by |-> "get_target_images", folder |-> folder,
                        user_input |-> user_input,
                        images |-> get_target_images(user_input, folder, listing)]
    /\ UNCHANGED <<last_analysis, annotated, reports, call, expl, agentVars, dirVars>>

\* The caller is done with the list.
PForget ==
    /\ probe.stage = "listed"
    /\ probe' = ProbeIdle
    /\ UNCHANGED <<last_analysis, annotated, reports, call, expl, agentVars, dirVars>>

----------------------------------------------------------------------------
(* tools.ensure_dir: "if not path.exists(): path.mkdir(parents=True,        *)
(* exist_ok=True)", one step per system call.  Path.mkdir calls os.mkdir;   *)
(* on FileNotFoundError with parents it makes the parent and calls itself   *)
(* again without parents; on any other OSError it raises unless exist_ok    *)
(* and the path is a directory.                                             *)

LastSlash(p) ==
    LET at == { i \in 1..Len(p) : SubSeq(p, i, i) = "/" }
    IN  IF at = {} THEN 0 ELSE CHOOSE i \in at : \A j \in at : j <= i

\* Path.parent; "." is the project root, which always exists.
Parent(p) == IF LastSlash(p) = 0 THEN "." ELSE SubSeq(p, 1, LastSlash(p) - 1)

Exists(d, existing) == d = "." \/ d \in existing

\* The directories ensure_dir is called with.
OutputDirs == { OUTPUT_DIR, ANNOTATED_DIR, REPORTS_DIR }

\* A Path.mkdir that does not tolerate an existing directory.
mkdir_step_strict(d, parents, exist_ok, existing) ==
    IF Exists(d, existing) THEN [do |-> "raise", exc |-> "FileExistsError"]
    ELSE IF ~Exists(Parent(d), existing)
        THEN IF parents THEN [do |-> "parents"]
                        ELSE [do |-> "raise", exc |-> "FileNotFoundError"]
    ELSE [do |-> "create"]

\* One os.mkdir(d) inside Path.mkdir(parents, exist_ok) and what follows it.
mkdir_step(d, parents, exist_ok, existing) ==
    IF Exists(d, existing)
        THEN IF exist_ok THEN [do |-> "pass"]
                         ELSE [do |-> "raise", exc |-> "FileExistsError"]
    ELSE IF ~Exists(Parent(d), existing)
        THEN IF parents THEN [do |-> "parents"]
                        ELSE [do |-> "raise", exc |-> "FileNotFoundError"]
    ELSE [do |-> "create"]

EnsAtRest(e) == e.pc \in { "idle", "done" }

EnsDone(e, ret) == [pc |-> "done", path |-> e.path, ret |-> ret, tolerated |-> e.tolerated]

\* ensure_dir(path): path.exists()
EnsureCheck(t) ==
    /\ EnsAtRest(ens[t])
    /\ \E path \in OutputDirs :
          ens' = [ens EXCEPT ![t] =
                    IF Exists(path, dirs)
                    THEN [pc |-> "done", path |-> path, ret |-> [value |-> None], tolerated |-> FALSE]
                    ELSE [pc |-> "mkdir", path |-> path, tolerated |-> FALSE,
                          stack |-> << [dir |-> path, parents |-> TRUE] >>]]
    /\ UNCHANGED <<dirs, last_analysis, annotated, reports, call, expl, probe, agentVars>>

\* The next os.mkdir of the call: the innermost Path.mkdir that is running.
Mkdir(t) ==
    /\ ens[t].pc = "mkdir"
    /\ LET e == ens[t]
           frame == Head(e.stack)
           step == mkdir_step(frame.dir, frame.parents, TRUE, dirs)
           rest == Tail(e.stack)
           returned(tol) == IF rest = <<>> THEN EnsDone([e EXCEPT !.tolerated = tol], [value |-> None])
                            ELSE [e EXCEPT !.stack = rest, !.tolerated = tol]
       IN  CASE step.do = "create" ->
                    /\ dirs' = dirs \cup { frame.dir }
                    /\ ens' = [ens EXCEPT ![t] = returned(e.tolerated)]
             [] step.do = "pass" ->
                    /\ ens' = [ens EXCEPT ![t] = returned(TRUE)]
                    /\ UNCHANGED dirs
             [] step.do = "parents" ->
                    /\ ens' = [ens EXCEPT ![t].stack =
                                  << [dir |-> Parent(frame.dir), parents |-> TRUE],
                                     [dir |-> frame.dir, parents |-> FALSE] >> \o rest]
                    /\ UNCHANGED dirs
             [] step.do = "raise" ->
                    /\ ens' = [ens EXCEPT ![t] = EnsDone(e, [exc |-> step.exc])]
                    /\ UNCHANGED dirs
    /\ UNCHANGED <<last_analysis, annotated, reports, call, expl, probe, agentVars>>

\* The caller goes on.
EnsureForget(t) ==
    /\ ens[t].pc = "done"
    /\ ens' = [ens EXCEPT ![t] = EnsIdle]
    /\ UNCHANGED <<dirs, last_analysis, annotated, reports, call, expl, probe, agentVars>>

\* Between two runs somebody removes output folders (a folder goes with
\* what is under it).
RemoveOutputs ==
    /\ \A t \in Threads : ens[t].pc = "idle"
    /\ \E gone \in { {ANNOTATED_DIR}, {REPORTS_DIR}, {ANNOTATED_DIR, REPORTS_DIR}, OutputDirs } :
          /\ gone \cap dirs # {}
          /\ dirs' = dirs \ gone
    /\ UNCHANGED <<ens, last_analysis, annotated, reports, call, expl, probe, agentVars>>

----------------------------------------------------------------------------
(* agent.py: the conversational assistant.  A response is the sequence of   *)
(* its lines and fields.                                                    *)

\* The two French phrases of GENERIC_QUESTIONS with a cedilla are left out.
GENERIC_GREETINGS == { "hi", "hello", "hey", "bonjour", "salut", "good morning", "good afternoon" }
GENERIC_QUESTIONS == { "how are you", "what's up", "how is it going" }
AnalyzeKeywords == { "analyze", "analyse" }
ShowKeywords == { "show", "open", "display", "latest image", "view", "visualize", "/show" }
ScanKeywords == { "analyze", "analyse", "scan", "review" }

\* any(k in text for k in keys)
AnyIn(keys, text) == \E k \in keys : In(k, text)

Txt(s) == [s |-> s]
Num(n) == [n |-> n]

\* response.lower() contains the phrase
Says(response, phrase) ==
    \E i \in 1..Len(response) :
        "s" \in DOMAIN response[i] /\ In(phrase, Lower(response[i].s))

\* The branch that answers: lines 269-271 first, then the if chain of
\* lines 273, 285, 289 and 312, every one ending in a return.
BranchShowFirst(text) ==
    IF AnyIn(AnalyzeKeywords, text) THEN "extended"
    ELSE IF AnyIn(ShowKeywords, text) THEN "show"
    ELSE IF AnyIn(GENERIC_GREETINGS, text) THEN "greeting"
    ELSE IF AnyIn(GENERIC_QUESTIONS, text) THEN "question"
    ELSE IF AnyIn(ScanKeywords, text) THEN "scan"
    ELSE "fallback"

Branch(text) ==
    IF AnyIn(AnalyzeKeywords, text) THEN "extended"
    ELSE IF AnyIn(GENERIC_GREETINGS, text) THEN "greeting"
    ELSE IF AnyIn(GENERIC_QUESTIONS, text) THEN "question"
    ELSE IF AnyIn(ShowKeywords, text) THEN "show"
    ELSE IF AnyIn(ScanKeywords, text) THEN "scan"
    ELSE "fallback"

\* Lines 274-282
GreetingText ==
    << Txt("Hello Doctor. I'm your mammography analysis assistant."),
       Txt("I can:"),
       Txt("Analyze your recent mammogram images"),
       Txt("Identify suspicious dense areas"),
       Txt("Generate structured reports"),
       Txt("Display annotated results"),
       Txt("Would you like me to analyze an image or show your latest annotation?") >>

\* Line 286
QuestionText == << Txt("All modules are operational. Ready to process your next case.") >>

\* Lines 368-375
FallbackText ==
    << Txt("**Mammography Analysis Assistant**"),
       Txt("I can assist you with:"),
       Txt("**Image analysis** - 'Analyze the latest mammogram'"),
       Txt("**Visualization** - 'Show me the annotated image' or '/show'"),
       Txt("**Reports** - Automatically saved in the output/reports folder"),
       Txt("How can I help you today?") >>

\* Lines 173 and 315
NoImagesText == << Txt("No mammogram images found in the input folder.") >>

\* Line 185
NotEnoughText == << Txt("Not enough images available.") >>

\* Line 293
NoAnnotatedText == << Txt("No annotated image found. Please analyze a mammogram first.") >>

\* round(min(100, ratio * 2.1 + 5), 1), in thousandths.  ratio * 2.1 + 5 is
\* (21 r + 500) / 100 for a ratio of r tenths; where that lies half way
\* between two tenths the binary float decides, and it falls below the half
\* for the ratios of TiesDown.
TiesDown == { 5, 25, 65, 95, 125, 165, 215, 225, 285, 305, 325, 355, 405, 425 }

agent_suspicion_index(ratio) ==
    LET n == 21 * ratio + 500
        tenths == IF n >= 10000 THEN 1000
                  ELSE IF n % 10 = 5
                       THEN (IF ratio \in TiesDown THEN n \div 10 ELSE n \div 10 + 1)
                  ELSE (n + 5) \div 10
    IN  100 * tenths

\* Lines 71-82
priority_of(idx) ==
    IF idx < 20000 THEN "Low (benign-appearing pattern)"
    ELSE IF idx < 50000 THEN "Moderate (requires correlation with prior studies)"
    ELSE "High (requires additional evaluation)"

\* _local_report_template, lines 84-97: the text
local_report_text(filename, ratio_percent, density_class, susp_idx, region_desc) ==
    << Txt("Automated analysis for "), Txt(filename),
       Txt("Quantitative summary:"),
       Txt("- Suspicious area ratio: "), Num(ratio_percent),
       Txt("- Density class: "), Txt(density_class),
       Txt("- Region of interest: "), Txt(region_desc),
       Txt("- Suspicion index (0-100): "), Num(susp_idx), Txt(priority_of(susp_idx)),
       Txt("Recommendations:"),
       Txt("- Correlate with prior studies when available."),
       Txt("Disclaimer: This AI-generated report assists your diagnostic workflow. Final interpretation remains under your clinical judgment.") >>

\* How a call of generate_report may go: no API key ("local"), an answer
\* from the API ("llm"), a refused or failed request ("api_failed": the
\* local text with a note), the report file not writable ("oserror").
\* The assistant's calls take the first two and the last.
ReportOutcomes == { "local", "llm", "oserror" }

agent_report_path(filename) == REPORTS_DIR \o "/" \o Stem(filename) \o "_report.txt"

\* generate_report, lines 110-159: the text returned, or the error raised,
\* and the reports folder afterwards.
generate_report(filename, ratio_percent, density_class, susp_idx, region_desc, g, files) ==
    LET local == local_report_text(filename, ratio_percent, density_class, susp_idx, region_desc)
        text == IF g = "llm" THEN << [llm |-> "content"] >>
                ELSE IF g = "api_failed" THEN local \o << [note |-> "API"] >>
                ELSE local
    IN  IF g = "oserror"
        THEN [ret |-> [exc |-> "OSError"], reports |-> files]
        ELSE [ret |-> [value |-> text],
              reports |-> Put(files, agent_report_path(filename),
                              [lines |-> text, newline |-> FALSE])]

\* How the two writes of analyze_image go in a call made by the assistant:
\* the annotated image (written / imwrite returns False) and the report
\* (written / OSError before the file is opened).  analyze_image below also
\* knows "raise" for the image (ensure_dir raises) and "truncate" for the
\* report (OSError after open), which the step-by-step actions take.
WriteOutcomes == { <<"ok", "ok">>, <<"failed", "ok">>, <<"ok", "raise">> }

\* F applied to the value of v, v being evaluated once (a local variable).
Bind(v, F(_)) == CHOOSE r \in { F(w) : w \in {v} } : TRUE

\* The dictionary of lines 218-226
context(image_path, res) ==
    [file |-> image_path, ratio |-> res.ratio, region |-> res.region,
     density |-> res.density, suspicion_index |-> res.suspicion_index,
     annotation_path |-> annotated_path(image_path),
     report_path |-> report_path(image_path)]

\* analyze_image, lines 189-228, as one call: what it returns or raises and
\* what it leaves in st = [last, annotated, reports].  o says how the write
\* of the annotated image goes ("raise": ensure_dir raises, "ok", "failed":
\* imwrite returns False) and how the write of the report goes ("ok",
\* "raise": OSError before the file is opened, "truncate": OSError after).
analyze_image(image_path, file, o, st) ==
    Bind(compute(image_path, file), LAMBDA res :
        IF IsExc(res) THEN [ret |-> res, st |-> st]
        ELSE IF o[1] = "raise" THEN [ret |-> [exc |-> "OSError"], st |-> st]
        ELSE
        Bind(IF o[1] = "ok"
             THEN Put(st.annotated, annotated_path(image_path), res.annotated_img)
             ELSE st.annotated, LAMBDA ann :
            IF o[2] = "raise"
            THEN [ret |-> [exc |-> "OSError"], st |-> [st EXCEPT !.annotated = ann]]
            ELSE IF o[2] = "truncate"
            THEN [ret |-> [exc |-> "OSError"],
                  st |-> [st EXCEPT !.annotated = ann,
                                   !.reports = Put(st.reports, report_path(image_path), Truncated)]]
            ELSE [ret |-> [value |-> <<res.ratio, res.region, annotated_path(image_path),
                                       report_path(image_path)>>],
                  st |-> [last |-> context(image_path, res),
                          annotated |-> ann,
                          reports |-> Put(st.reports, report_path(image_path),
                                          save_report(tech_report(image_path, res)))]]))

\* The analyser's state and output folders, as analyze_image finds them.
Store == [last |-> last_analysis, annotated |-> annotated, reports |-> reports]

\* One image of a request: analyze_image, the density ladder, the index,
\* generate_report (lines 188-201 and 321-333).  The result is what the
\* branch gets ([value |-> report text] or [exc |-> kind]), the store
\* afterwards and the record of the analyze_image call.
analyze_one(image, o, g, st, scanning) ==
    Bind(analyze_image(image.name, image.file, o, st), LAMBDA a :
        IF IsExc(a.ret)
        THEN [ret |-> a.ret, st |-> a.st, call |-> [name |-> image.name, ret |-> a.ret]]
        ELSE
        Bind(generate_report(image.name, a.ret.value[1],
                             IF scanning THEN agent_scan_density_class(a.ret.value[1])
                             ELSE agent_density_class(a.ret.value[1]),
                             agent_suspicion_index(a.ret.value[1]), a.ret.value[2],
                             g, a.st.reports), LAMBDA rep :
            [ret |-> rep.ret,
             st |-> [a.st EXCEPT !.reports = rep.reports],
             call |-> [name |-> image.name, ret |-> a.ret]]))

MaxMessages == 1
MaxScans == 2

\* What the radiologist types.
UserInputs ==
    { "hello", "how are you?", "what is the weather?", "show me this image",
      "display the result", "analyze image", " Analyse the FIRST scan ",
      "analyze the second one", "analyse the 3rd image",
      "review all", "scan b.dcm", "scan" }

\* Scans that may be dropped into the input folder.
ScanNames == { "a.png", "b.dcm" }
ScanFiles == { EmptyMask, Unreadable }

\* Requests that reach the scan branch of process_message.
ScanInputs == { "scan all", "scan b.dcm" }

\* What is typed at the prompt of main.py.
CliInputs == { "", " Yes ", "no", "maybe", "/clear", "/EXIT", "hello", "scan all" }

\* What is typed in the chat box of the Assistant tab.
TabInputs == { "hello", "scan all", "Yes", "no", "maybe" }

\* app.py line 175: the line the tab hands to process_message after an upload.
UploadLine == [name \in ScanNames |-> "User uploaded file: " \o name]

\* Every line the model types.
Typed ==
    UserInputs \cup ScanInputs \cup TabInputs \cup CliInputs
    \cup { Strip(u) : u \in CliInputs } \cup { UploadLine[name] : name \in ScanNames }

\* Line 267, text = user_input.strip().lower(), and the branch taken, for
\* each input.
TextOf == [u \in Typed |-> Lower(Strip(u))]
BranchOf == [u \in Typed |-> Branch(TextOf[u])]

\* What a branch of process_message hands back: the entry appended to the
\* caller's list, the response, the analyze_image calls it made, the
\* analyser's store and the Agent fields afterwards.
Outcome(response, analysed, st, fields) ==
    [content |-> response, response |-> response, analysed |-> analysed,
     st |-> st, agent |-> fields]

\* handle_extended_commands, lines 165-219.  o and g say how the writes of
\* analyze_image and generate_report go.
handle_extended_commands(user_input, folder, o, g, st, fields) ==
    Bind(get_images(folder), LAMBDA images :
        LET text == TextOf[user_input]
            n == Len(images)
            sel == IF In("first", text) THEN 1
                   ELSE IF In("second", text) \/ In("2nd", text) THEN (IF n >= 2 THEN 2 ELSE 0)
                   ELSE IF In("third", text) \/ In("3rd", text) THEN (IF n >= 3 THEN 3 ELSE 0)
                   ELSE n
        IN  IF n = 0 THEN Outcome(NoImagesText, <<>>, st, fields)
            ELSE IF sel = 0 THEN Outcome(NotEnoughText, <<>>, st, fields)
            ELSE
            Bind(images[sel], LAMBDA selected :
            Bind(analyze_one(selected, o, g, st, FALSE), LAMBDA one :
                IF IsExc(one.ret)
                THEN Outcome(<< Txt("Error during analysis: "), [e |-> one.ret.exc] >>,
                             << one.call >>, one.st, fields)
                ELSE Outcome(<< Txt("Full AI-Generated Report for "), Txt(selected.name) >>
                             \o one.ret.value
                             \o << Txt("Report saved at: "), Txt(report_path(selected.name)),
                                   Txt("Annotated image: "), Txt(annotated_path(selected.name)),
                                   Txt("*AI-assisted analysis - not a diagnostic result.*") >>,
                             << one.call >>, one.st, fields))))

\* Path(p).name
RECURSIVE Basename(_)
Basename(p) ==
    IF \E i \in 1..Len(p) : SubSeq(p, i, i) = "/"
    THEN Basename(SubSeq(p, 2, Len(p)))
    ELSE p

\* Lines 289-310.  launched: the viewer is started, or starting it raises.
show_image(launched, st, fields) ==
    LET stale == fields.last_image = None \/ fields.last_image \notin DOMAIN st.annotated
    IN  IF stale /\ DOMAIN st.annotated = {}
        THEN Outcome(NoAnnotatedText, <<>>, st, fields)
        ELSE
        Bind(IF stale THEN Sorted(DOMAIN st.annotated)[Cardinality(DOMAIN st.annotated)]
             ELSE fields.last_image, LAMBDA image_path :
            Outcome(<< Txt("Opening "), Txt(Basename(image_path)), Txt(" in viewer..."),
                       Txt(IF launched THEN "Viewer launched successfully."
                           ELSE "Error opening viewer: ") >>,
                    <<>>, st, [fields EXCEPT !.last_image = image_path]))

\* A loop that gives up at the first image that raises.
RECURSIVE scan_loop_stopping(_, _, _, _, _)
scan_loop_stopping(image_paths, os, gs, i, acc) ==
    IF i > Len(image_paths) THEN acc
    ELSE
    Bind(analyze_one(image_paths[i], os[i], gs[i], acc.st, TRUE), LAMBDA one :
        IF IsExc(one.ret)
        THEN [st |-> one.st, agent |-> acc.agent,
              results |-> Append(acc.results,
                                 << Txt("Error analyzing "), Txt(image_paths[i].name),
                                    [e |-> one.ret.exc] >>),
              analysed |-> Append(acc.analysed, one.call)]
        ELSE
        Bind([st |-> one.st,
              agent |-> [last_ratio |-> one.call.ret.value[1],
                         last_region |-> one.call.ret.value[2],
                         last_image |-> one.call.ret.value[3]],
              results |-> Append(acc.results,
                                 one.ret.value
                                 \o << Txt("Report saved at: "), Txt(report_path(image_paths[i].name)),
                                       Txt("Annotated image: "), Txt(annotated_path(image_paths[i].name)) >>),
              analysed |-> Append(acc.analysed, one.call)], LAMBDA next :
            scan_loop_stopping(image_paths, os, gs, i + 1, next)))

\* Lines 318-346: the loop over image_paths from index i on.  acc holds the
\* store, the Agent fields, the entries of analysis_results and the record
\* of the analyze_image calls.
RECURSIVE scan_loop(_, _, _, _, _)
scan_loop(image_paths, os, gs, i, acc) ==
    IF i > Len(image_paths) THEN acc
    ELSE
    Bind(analyze_one(image_paths[i], os[i], gs[i], acc.st, TRUE), LAMBDA one :
        LET image == image_paths[i]
            entry == IF IsExc(one.ret)
                     THEN << Txt("Error analyzing "), Txt(image.name), [e |-> one.ret.exc] >>
                     ELSE one.ret.value
                          \o << Txt("Report saved at: "), Txt(report_path(image.name)),
                                Txt("Annotated image: "), Txt(annotated_path(image.name)) >>
            fields == IF IsExc(one.ret) THEN acc.agent
                      ELSE [last_ratio |-> one.call.ret.value[1],
                            last_region |-> one.call.ret.value[2],
                            last_image |-> one.call.ret.value[3]]
        IN  Bind([st |-> one.st, agent |-> fields,
                  results |-> Append(acc.results, entry),
                  analysed |-> Append(acc.analysed, one.call)], LAMBDA next :
                scan_loop(image_paths, os, gs, i + 1, next)))

\* sum(results, [])
RECURSIVE Flatten(_)
Flatten(ss) == IF ss = <<>> THEN <<>> ELSE Head(ss) \o Flatten(Tail(ss))

\* Lines 312-366.  analysis_results has an entry per image, so the test
\* of line 349 never holds.  The list gets {"summary": response}.
scan_images(image_paths, os, gs, st, fields) ==
    IF Len(image_paths) = 0 THEN Outcome(NoImagesText, <<>>, st, fields)
    ELSE
    Bind(scan_loop(image_paths, os, gs, 1,
                   [st |-> st, agent |-> fields, results |-> <<>>, analysed |-> <<>>]),
         LAMBDA run :
        Bind(<< Txt("**Analysis completed for "), Num(Len(run.results)),
                Txt(" image(s).**") >>
             \o Flatten(run.results)
             \o << Txt("*This AI-assisted analysis supports but does not replace radiological expertise.*") >>,
             LAMBDA response :
            [content |-> [summary |-> response], response |-> response,
             analysed |-> run.analysed, st |-> run.st, agent |-> run.agent]))

\* The return of process_message: the reply is appended to the caller's
\* list (add_text_message / add_report_message), the analyser's store and
\* the Agent fields are as the branch left them.
Return(user_input, out) ==
    /\ messages' = Append(messages, [role |-> "assistant", content |-> out.content])
    /\ reply' = [input |-> user_input, response |-> out.response, analysed |-> out.analysed]
    /\ last_analysis' = out.st.last
    /\ annotated' = out.st.annotated
    /\ reports' = out.st.reports
    /\ agent' = out.agent
    /\ UNCHANGED <<input_dir, call, expl, probe, dirVars>>

\* Lines 269-271
Extended(user_input) ==
    /\ BranchOf[user_input] = "extended"
    /\ \E o \in WriteOutcomes, g \in ReportOutcomes :
          \E st \in { Store } :
              \E out \in { handle_extended_commands(user_input, input_dir, o, g, st, agent) } :
                  Return(user_input, out)

\* Lines 273-283
Greeting(user_input) ==
    /\ BranchOf[user_input] = "greeting"
    /\ \E st \in { Store } : Return(user_input, Outcome(GreetingText, <<>>, st, agent))

\* Lines 285-287
Question(user_input) ==
    /\ BranchOf[user_input] = "question"
    /\ \E st \in { Store } : Return(user_input, Outcome(QuestionText, <<>>, st, agent))

\* Lines 289-310
Show(user_input) ==
    /\ BranchOf[user_input] = "show"
    /\ \E launched \in BOOLEAN :
          \E st \in { Store } :
              \E out \in { show_image(launched, st, agent) } : Return(user_input, out)

\* Lines 312-366
Scan(user_input) ==
    /\ BranchOf[user_input] = "scan"
    /\ \E image_paths \in { get_target_images(user_input, input_dir, listing) :
                                listing \in DirListings(input_dir) } :
          \E os \in [1..Len(image_paths) -> WriteOutcomes],
             gs \in [1..Len(image_paths) -> ReportOutcomes] :
              \E st \in { Store } :
                  \E out \in { scan_images(image_paths, os, gs, st, agent) } :
                      Return(user_input, out)

\* Lines 368-376
Fallback(user_input) ==
    /\ BranchOf[user_input] = "fallback"
    /\ \E st \in { Store } : Return(user_input, Outcome(FallbackText, <<>>, st, agent))

\* Agent.process_message, lines 266-376, on the list main.py keeps.
ProcessMessage ==
    /\ Len(messages) < MaxMessages
    /\ \E user_input \in UserInputs :
          \/ Extended(user_input)
          \/ Greeting(user_input)
          \/ Question(user_input)
          \/ Show(user_input)
          \/ Scan(user_input)
          \/ Fallback(user_input)
    /\ UNCHANGED ui

\* main.py lines 167-169: /clear
ClearHistory ==
    /\ messages # <<>>
    /\ messages' = <<>>
    /\ UNCHANGED <<last_analysis, annotated, reports, call, expl, probe,
                   input_dir, agent, reply, dirVars, ui>>

\* A scan is put in the input folder.
AddScan ==
    /\ Len(input_dir) < MaxScans
    /\ \E name \in ScanNames, file \in ScanFiles :
          /\ \A i \in 1..Len(input_dir) : input_dir[i].name # name
          /\ input_dir' = Append(input_dir, [name |-> name, file |-> file])
    /\ UNCHANGED <<last_analysis, annotated, reports, call, expl, probe,
                   agent, messages, reply, dirVars, ui>>

----------------------------------------------------------------------------
(* The front ends: the loop of main.py and the Assistant tab of app.py *)

\* What a call of process_message depends on besides its arguments: how the
\* writes of analyze_image and generate_report go (o, g for one image, os, gs
\* for the images of a scan), whether the viewer starts, and the order in
\* which the folder is listed.
Chance(o, g, launched, listing, os, gs) ==
    [o |-> o, g |-> g, launched |-> launched, listing |-> listing, os |-> os, gs |-> gs]

\* The chances that matter to the branch the input takes.
Chances(user_input) ==
    LET b == BranchOf[user_input]
    IN  IF b = "extended"
            THEN { Chance(o, g, TRUE, <<>>, <<>>, <<>>) :
                       o \in WriteOutcomes, g \in ReportOutcomes }
        ELSE IF b = "show"
            THEN { Chance(<<"ok", "ok">>, "local", launched, <<>>, <<>>, <<>>) :
                       launched \in BOOLEAN }
        ELSE IF b = "scan"
            THEN UNION { { Chance(<<"ok", "ok">>, "local", TRUE, listing, os, gs) :
                               os \in [1..Len(get_target_images(user_input, input_dir, listing))
                                           -> WriteOutcomes],
                               gs \in [1..Len(get_target_images(user_input, input_dir, listing))
                                           -> ReportOutcomes] } :
                           listing \in DirListings(input_dir) }
        ELSE { Chance(<<"ok", "ok">>, "local", TRUE, <<>>, <<>>, <<>>) }

\* Agent.process_message, lines 266-376, as a function: what a call hands
\* back on the folder and the store as they are, for an Agent whose fields
\* are given.
process_message(user_input, fields, ch) ==
    LET b == BranchOf[user_input]
    IN  IF b = "extended"
            THEN handle_extended_commands(user_input, input_dir, ch.o, ch.g, Store, fields)
        ELSE IF b = "greeting" THEN Outcome(GreetingText, <<>>, Store, fields)
        ELSE IF b = "question" THEN Outcome(QuestionText, <<>>, Store, fields)
        ELSE IF b = "show" THEN show_image(ch.launched, Store, fields)
        ELSE IF b = "scan"
            THEN scan_images(get_target_images(user_input, input_dir, ch.listing),
                             ch.os, ch.gs, Store, fields)
        ELSE Outcome(FallbackText, <<>>, Store, fields)

\* The response holds text of the language model.
HasLLM(response) == \E i \in 1..Len(response) : "llm" \in DOMAIN response[i]

\* main.py line 231: "Souhaites-tu que je contacte le patient" in response.
\* No text of the agent holds it; what the language model writes may.
CliAsks(response) ==
    IF \E i \in 1..Len(response) :
           "s" \in DOMAIN response[i]
           /\ In("Souhaites-tu que je contacte le patient", response[i].s)
        THEN { TRUE }
    ELSE IF HasLLM(response) THEN BOOLEAN
    ELSE { FALSE }

\* app.py line 277
TabAsks(response) ==
    IF Says(response, "would you like me to send") /\ Says(response, "email") THEN { TRUE }
    ELSE IF HasLLM(response) THEN BOOLEAN
    ELSE { FALSE }

\* main.py lines 191 and 215, app.py lines 194 and 230
Affirmative == { "oui", "yes", "ok", "send", "envoie" }
Negative == { "non", "no", "stop" }

\* An answer that lets every e-mail through and keeps waiting.
consent_keeps_waiting(awaiting, lowered) ==
    IF ~awaiting THEN [handled |-> FALSE, send |-> FALSE, awaiting |-> FALSE]
    ELSE IF lowered \in Affirmative THEN [handled |-> TRUE, send |-> TRUE, awaiting |-> TRUE]
    ELSE IF lowered \in Negative THEN [handled |-> TRUE, send |-> FALSE, awaiting |-> FALSE]
    ELSE [handled |-> TRUE, send |-> FALSE, awaiting |-> TRUE]

\* main.py lines 188-223, app.py lines 193-236: what an answer does while
\* a consent is awaited: whether the line is consumed, whether send_email is
\* called, and the flag afterwards.
consent(awaiting, lowered) ==
    IF ~awaiting THEN [handled |-> FALSE, send |-> FALSE, awaiting |-> FALSE]
    ELSE IF lowered \in Affirmative THEN [handled |-> TRUE, send |-> TRUE, awaiting |-> FALSE]
    ELSE IF lowered \in Negative THEN [handled |-> TRUE, send |-> FALSE, awaiting |-> FALSE]
    ELSE [handled |-> TRUE, send |-> FALSE, awaiting |-> TRUE]

\* The front end has read a line.
Read(line, awaiting, mails) ==
    [ui EXCEPT !.line = line, !.tick = ~ui.tick, !.awaiting = awaiting, !.mails = mails]

\* One turn of the loop of main.py, lines 145-244.  send_email returns
\* True or False and raises nothing; either way the flag is cleared.
CliLine(raw) ==
    /\ ui.running
    /\ \E user_input \in { Strip(raw) } :
       \E c \in { consent(ui.awaiting, TextOf[user_input]) } :
          IF user_input = ""
              THEN /\ ui' = Read(raw, ui.awaiting, ui.mails)
                   /\ UNCHANGED <<last_analysis, annotated, reports, call, expl, probe,
                                  input_dir, agent, messages, reply, dirVars>>
          ELSE IF SubSeq(user_input, 1, 1) = "/"
              THEN /\ ui' = [Read(raw, ui.awaiting, ui.mails) EXCEPT
                                 !.running = TextOf[user_input] \notin { "/exit", "/quit" }]
                   /\ messages' = IF TextOf[user_input] = "/clear" THEN <<>> ELSE messages
                   /\ UNCHANGED <<last_analysis, annotated, reports, call, expl, probe,
                                  input_dir, agent, reply, dirVars>>
          ELSE IF c.handled
              THEN /\ \E success \in (IF c.send THEN BOOLEAN ELSE { FALSE }) :
                          ui' = Read(raw, c.awaiting, IF c.send THEN ui.mails + 1 ELSE ui.mails)
                   /\ UNCHANGED <<last_analysis, annotated, reports, call, expl, probe,
                                  input_dir, agent, messages, reply, dirVars>>
          ELSE \E ch \in Chances(user_input) :
               \E out \in { process_message(user_input, agent, ch) } :
                   /\ Return(user_input, out)
                   /\ \E asks \in CliAsks(out.response) :
                          ui' = Read(raw, asks, IF asks THEN 0 ELSE ui.mails)

\* The terminal: a line is typed while the conversation is short enough.
CliTurn ==
    \E raw \in CliInputs :
        /\ CliLine(raw)
        /\ Len(messages') <= MaxMessages

\* Scans in the folder of a terminal session.
MaxCliScans == 1

\* A scan is put in the input folder while the terminal runs.
CliAddScan ==
    /\ Len(input_dir) < MaxCliScans
    /\ AddScan

CliNext ==
    \/ CliAddScan
    \/ CliTurn

SpecCli == Init /\ [][CliNext]_vars

\* app.py lines 187-286: a message typed in the chat box.  The Agent is
\* built for the message (line 241).  process_message appends its entry to
\* the list it is given, which is chat_history itself (memory.py 124-139);
\* line 281 then appends the reply.  bot_reply is a str, so the test of
\* line 245 never holds; send is how send_gmail goes.
TabMessage(user_msg) ==
    \E history \in { Append(messages, [role |-> "user", content |-> user_msg]) } :
    \E c \in { consent(ui.awaiting, Lower(user_msg)) } :
        IF c.handled
        THEN /\ \E send \in (IF c.send THEN { "sent", "failed", "raised" } ELSE { "none" }) :
                  messages' = Append(history,
                      [role |-> "assistant",
                       content |-> << Txt(IF send = "sent" THEN "Email sent successfully to the patient!"
                                          ELSE IF send = "failed" THEN "Failed to send email. Please try again."
                                          ELSE IF send = "raised" THEN "Error sending email: "
                                          ELSE IF c.awaiting
                                              THEN "Please answer YES or NO to send the patient notification."
                                          ELSE "No email will be sent to the patient.") >>])
             /\ ui' = Read(user_msg, c.awaiting, IF c.send THEN ui.mails + 1 ELSE ui.mails)
             /\ UNCHANGED <<last_analysis, annotated, reports, call, expl, probe,
                            input_dir, agent, reply, dirVars>>
        ELSE \E ch \in Chances(user_msg) :
             \E out \in { process_message(user_msg, NewAgent, ch) } :
                 /\ messages' = Append(Append(history, [role |-> "assistant", content |-> out.content]),
                                       [role |-> "assistant", content |-> out.response])
                 /\ reply' = [input |-> user_msg, response |-> out.response, analysed |-> out.analysed]
                 /\ last_analysis' = out.st.last
                 /\ annotated' = out.st.annotated
                 /\ reports' = out.st.reports
                 /\ agent' = out.agent
                 /\ \E asks \in TabAsks(out.response) :
                        ui' = Read(user_msg, asks, IF asks THEN 0 ELSE ui.mails)
                 /\ UNCHANGED <<input_dir, call, expl, probe, dirVars>>

\* app.py lines 162-186: a file is dropped in the chat.  It is written to
\* INPUT_DIR, over a file of the same name, and the tab talks to the agent.
TabUpload(name, file) ==
    \E history \in { Append(messages, [role |-> "user", content |-> "File uploaded: " \o name]) } :
    \E ch \in Chances(UploadLine[name]) :
    \E out \in { process_message(UploadLine[name], NewAgent, ch) } :
        /\ input_dir' = Append(SelectSeq(input_dir, LAMBDA e : e.name # name),
                               [name |-> name, file |-> file])
        /\ messages' = Append(Append(history, [role |-> "assistant", content |-> out.content]),
                              [role |-> "assistant", content |-> out.response])
        /\ reply' = [input |-> UploadLine[name], response |-> out.response, analysed |-> out.analysed]
        /\ last_analysis' = out.st.last
        /\ annotated' = out.st.annotated
        /\ reports' = out.st.reports
        /\ agent' = out.agent
        /\ UNCHANGED <<call, expl, probe, dirVars, ui>>

\* The chat of one session, while it is short enough.
MaxChat == 9

TabTurn ==
    /\ Len(messages) + 3 <= MaxChat
    /\ \E user_msg \in TabInputs : TabMessage(user_msg)

TabDrop ==
    /\ Len(messages) + 3 <= MaxChat
    /\ \E name \in ScanNames, file \in ScanFiles : TabUpload(name, file)

AppNext ==
    \/ TabTurn
    \/ TabDrop

SpecApp == Init /\ [][AppNext]_vars

----------------------------------------------------------------------------
(* Specifications *)

\* The stages of one analysis, and the density ladders, on every input image.
StageNext ==
    \/ PLoad
    \/ PPreprocess
    \/ PSegment
    \/ PQuantify
    \/ PLocalize
    \/ PAnnotate
    \/ PClassify
    \/ PCrop
    \/ PIndex

SpecStages == Init /\ [][StageNext]_vars

\* The three enumerations of the input folder, on every folder.
ListingNext ==
    \/ PGetImages(Folders(MaxFolder))
    \/ PListInputFiles(Folders(MaxFolder))
    \/ PGetTargetImages(Folders(MaxFolder))
    \/ PForget

SpecListing == Init /\ [][ListingNext]_vars

\* Two scans of one stem in the input folder.
StemInputs == { <<"a.png", EmptyMask>>, <<"a.dcm", TwoRegions>> }

\* Two threads analysing them, every step of one interleaved with the other's.
StemNext ==
    \/ \E t \in Threads : Compute(t, StemInputs)
    \/ \E t \in Threads : WriteImage(t)
    \/ \E t \in Threads : WriteReport(t)
    \/ \E t \in Threads : SaveContext(t)

SpecStem == Init /\ [][StemNext]_vars

\* Two callers of ensure_dir and the removal of output folders.
DirsNext ==
    \/ \E t \in Threads : EnsureCheck(t)
    \/ \E t \in Threads : Mkdir(t)
    \/ \E t \in Threads : EnsureForget(t)
    \/ RemoveOutputs

SpecDirs == Init /\ [][DirsNext]_vars

\* One thread of control (the CLI, one dashboard session): a call runs to
\* its end before the next one starts.
Caller == "t1"

SeqNext ==
    \/ expl.pc = "idle" /\ probe.stage = "idle" /\ Compute(Caller, Inputs)
    \/ WriteImage(Caller)
    \/ WriteReport(Caller)
    \/ SaveContext(Caller)
    \/ AtRest(call[Caller]) /\ probe.stage = "idle" /\ ExplainGuard
    \/ ExplainReadRatio
    \/ ExplainReadRegion
    \/ ExplainReadDensity
    \/ ExplainReturn
    \/ ExplainForget
    \/ AtRest(call[Caller]) /\ expl.pc = "idle" /\ PGetImages(CliFolders)
    \/ AtRest(call[Caller]) /\ expl.pc = "idle" /\ PListInputFiles(CliFolders)
    \/ PForget

SpecSeq == Init /\ [][SeqNext]_vars

\* Several sessions of the dashboard: calls of analyze_image and
\* explain_suspicious_zone interleave at every step.
Next ==
    \/ \E t \in Threads : Compute(t, SharedInputs)
    \/ \E t \in Threads : WriteImage(t)
    \/ \E t \in Threads : WriteReport(t)
    \/ \E t \in Threads : SaveContext(t)
    \/ ExplainGuard
    \/ ExplainReadRatio
    \/ ExplainReadRegion
    \/ ExplainReadDensity
    \/ ExplainReturn
    \/ ExplainForget

Spec == Init /\ [][Next]_vars

\* The assistant: one conversation, scans arriving in the input folder.
\* process_message on requests of the scan branch.
ScanMessage ==
    /\ Len(messages) < MaxMessages
    /\ \E user_input \in ScanInputs : Scan(user_input)
    /\ UNCHANGED ui

ScanNext ==
    \/ AddScan
    \/ ScanMessage
    \/ ClearHistory

SpecScan == Init /\ [][ScanNext]_vars

AgentNext ==
    \/ AddScan
    \/ ProcessMessage
    \/ ClearHistory

SpecAgent == Init /\ [][AgentNext]_vars

----------------------------------------------------------------------------
(* Properties *)

HasRatio == probe.stage \in { "quantified", "localized", "annotated" }

\* C1 (SpecStages): for every decoded image the ratio analyze_image computes
\* lies in [MIN_RATIO*100, MAX_RATIO*100] (1.0 % .. 80.0 %); a raw foreground
\* fraction below the floor gives the floor, one above the ceiling the ceiling.
RatioClamped ==
    HasRatio =>
        LET total == probe.mask.h * probe.mask.w
            suspicious == SumField(probe.mask.comps, "area")
        IN  /\ probe.ratio >= MIN_SUSPICIOUS_RATIO
            /\ probe.ratio <= MAX_SUSPICIOUS_RATIO
            /\ 1000 * suspicious <= MIN_SUSPICIOUS_RATIO * total
                  => probe.ratio = MIN_SUSPICIOUS_RATIO
            /\ 1000 * suspicious >= MAX_SUSPICIOUS_RATIO * total
                  => probe.ratio = MAX_SUSPICIOUS_RATIO

\* An all-foreground mask has gone through the quantifier and sits at the ceiling.
RatioClampedWitness ==
    /\ probe.stage = "annotated"
    /\ SumField(probe.mask.comps, "area") = probe.mask.h * probe.mask.w
    /\ probe.ratio = MAX_SUSPICIOUS_RATIO

\* C2 (SpecStages): the density class is a step function of the ratio with
\* lower-inclusive boundaries at 5.0, 15.0 and 35.0, and the ladders
\* inlined in the agent give the same class for every ratio.
DensityLadder ==
    /\ probe.stage \in { "classified", "quantified" } =>
          /\ probe.ratio < 50 => probe.density = ClassA
          /\ (probe.ratio >= 50 /\ probe.ratio < 150) => probe.density = ClassB
          /\ (probe.ratio >= 150 /\ probe.ratio < 350) => probe.density = ClassC
          /\ probe.ratio >= 350 => probe.density = ClassD
    /\ probe.stage = "classified" =>
          /\ probe.agent_density = probe.density
          /\ probe.agent_scan_density = probe.density

\* The boundary input 5.0 has been classified, as B by every ladder.
DensityLadderWitness ==
    /\ probe.stage = "classified"
    /\ probe.ratio = 50
    /\ probe.density = ClassB
    /\ probe.agent_density = ClassB
    /\ probe.agent_scan_density = ClassB

NothingSurvives ==
    /\ probe.stage \in { "segmented", "quantified", "localized", "annotated", "raised" }
    /\ probe.file.decode = "ok"
    /\ \A i \in 1..Len(probe.file.blobs) : probe.file.blobs[i].area < MIN_COMPONENT_AREA

\* C10 (SpecStages): when every component of the image is below the minimum
\* area the cleaned mask is all-zero and the ratio is exactly the clamp
\* floor, not 0, and no stage raises.
FloorWhenNothingSurvives ==
    NothingSurvives =>
        /\ probe.stage # "raised"
        /\ probe.mask.comps = <<>>
        /\ HasRatio => probe.ratio = MIN_SUSPICIOUS_RATIO

\* An image with components, all of them filtered out, analysed to the end.
FloorWhenNothingSurvivesWitness ==
    /\ NothingSurvives
    /\ probe.stage = "annotated"
    /\ Len(probe.file.blobs) > 0
    /\ probe.ratio = MIN_SUSPICIOUS_RATIO

Finished(t) == call[t].pc = "done"
Returned(t) == Finished(t) /\ ~IsExc(call[t].ret)
Raised(t) == Finished(t) /\ IsExc(call[t].ret)

\* C3 (SpecSeq): explain_suspicious_zone returns the sentinel while no
\* analysis has succeeded; after a successful analyze_image call it returns a
\* text holding that call's region label and density class.
ExplainAfterAnalysis ==
    expl.pc = "done" =>
        /\ last_analysis.file = None => expl.out = Sentinel
        /\ last_analysis.file # None =>
              /\ expl.out # Sentinel
              /\ Contains(expl.out, last_analysis.region)
              /\ Contains(expl.out, last_analysis.density)
        /\ (Finished(Caller) /\ call[Caller].updated) =>
              /\ Contains(expl.out, call[Caller].res.region)
              /\ Contains(expl.out, call[Caller].res.density)

\* The explanation was asked for right after a successful analysis.
ExplainAfterAnalysisWitness ==
    /\ expl.pc = "done"
    /\ Returned(Caller)
    /\ call[Caller].updated
    /\ Contains(expl.out, call[Caller].res.region)
    /\ Contains(expl.out, call[Caller].res.density)

\* C4 (SpecSeq), as claimed: _last_analysis is updated only by a call whose
\* annotated-image write and report write both succeeded.
UpdateOnlyAfterBothWrites ==
    \A t \in Threads :
        (Finished(t) /\ call[t].updated) =>
            (call[t].img_write = "ok" /\ call[t].rep_write = "ok")

\* C6 (SpecSeq), as claimed: a call that ends in failure has written neither
\* its annotated image nor its report.
NoPartialOutputOnFailure ==
    \A t \in Threads :
        Raised(t) => (call[t].img_write # "ok" /\ call[t].rep_write # "ok")

\* C7 (SpecSeq), as claimed: a call whose annotated-image write did not
\* succeed does not return a normal result.
ImageWriteFailureSurfaced ==
    \A t \in Threads :
        (Finished(t) /\ call[t].img_write = "failed") => IsExc(call[t].ret)

\* C8 (SpecSeq): a file that cannot be decoded (unparseable, or no pixels)
\* makes analyze_image raise the loader's error: no image is stood in for
\* it, nothing is written, _last_analysis is not updated.
DecodeFailureIsFatal ==
    \A t \in Threads :
        (call[t].pc # "idle" /\ call[t].file.decode # "ok") =>
            /\ Raised(t)
            /\ call[t].ret.exc \in { "ValueError", "InvalidDicomError" }
            /\ IsExc(call[t].res)
            /\ call[t].img_write = "none"
            /\ call[t].rep_write = "none"
            /\ ~call[t].updated

\* A DICOM file without pixels was handed to analyze_image.
DecodeFailureIsFatalWitness ==
    /\ Raised(Caller)
    /\ call[Caller].path = "a.dcm"
    /\ call[Caller].file = ZeroPixels

\* C9 (SpecSeq): for a decoded image no stage before the writes raises, so
\* the only way analyze_image fails is a write; with both writes done it
\* returns, and an empty mask is answered with the floor ratio and the
\* quadrant of the geometric centre.
DecodedImageAlwaysAnalysed ==
    \A t \in Threads :
        (call[t].pc # "idle" /\ call[t].file.decode = "ok") =>
            /\ ~IsExc(call[t].res)
            /\ Raised(t) =>
                  /\ call[t].ret.exc = "OSError"
                  /\ call[t].img_write = "none" \/ call[t].rep_write = "failed"
            /\ (Finished(t) /\ call[t].img_write = "ok" /\ call[t].rep_write = "ok")
                  => Returned(t)
            /\ call[t].file.blobs = <<>> =>
                  /\ call[t].res.ratio = MIN_SUSPICIOUS_RATIO
                  /\ call[t].res.region = "lower-outer quadrant"
                  /\ call[t].res.annotated_img.marker = None

\* An image with an all-zero mask was analysed and a result returned.
DecodedImageAlwaysAnalysedWitness ==
    /\ Returned(Caller)
    /\ call[Caller].file = EmptyMask
    /\ call[Caller].img_write = "ok"
    /\ call[Caller].ret.value[1] = MIN_SUSPICIOUS_RATIO

\* The dictionary analyze_image would store for input in.
ContextOf(in) ==
    LET res == compute(in[1], in[2])
    IN  [file |-> in[1], ratio |-> res.ratio, region |-> res.region,
         density |-> res.density, suspicion_index |-> res.suspicion_index,
         annotation_path |-> annotated_path(in[1]), report_path |-> report_path(in[1])]

\* C5 (Spec), as claimed: under every interleaving the fields of
\* _last_analysis, and the fields a concurrent explain_suspicious_zone puts
\* in its text, all come from one analysis.
NoMixedAnalysis ==
    /\ last_analysis.file # None => \E in \in SharedInputs : last_analysis = ContextOf(in)
    /\ (expl.pc = "done" /\ expl.out # Sentinel) =>
          \E in \in SharedInputs :
              expl.out = explanation(ContextOf(in).region, ContextOf(in).density,
                                     ContextOf(in).suspicion_index)

HasResult(t) == call[t].pc # "idle" /\ ~IsExc(call[t].res)

SameAnalysis(a, b) ==
    IF a.file = None \/ b.file = None THEN a.file = b.file ELSE a = b

LastAnalysisLifecycle ==
    /\ last_analysis = NoAnalysis
    /\ [][ /\ last_analysis.file # None => last_analysis'.file # None
           /\ ~SameAnalysis(last_analysis', last_analysis) =>
                 \E t \in Threads :
                     /\ call[t].pc = "report_saved"
                     /\ call'[t].pc = "done"
                     /\ ~IsExc(call'[t].ret)
                     /\ last_analysis' = context(call[t].path, call[t].res)
           /\ ( \/ expl' # expl
                \/ probe' # probe
                \/ \E t \in Threads :
                      call[t].pc # "done" /\ call'[t].pc = "done" /\ IsExc(call'[t].ret) )
                 => SameAnalysis(last_analysis', last_analysis) ]_vars

\* A call on another file has raised, an explanation has been given and the
\* folder has been listed, and the earlier analysis is still recorded.
LastAnalysisLifecycleWitness ==
    /\ Raised(Caller)
    /\ last_analysis.file # None
    /\ call[Caller].path # last_analysis.file
    /\ probe.stage = "listed"

\* The stem of each source file, written out.
StemOfPath(p) ==
    CASE p = "a.png" -> "a"
      [] p = "a.dcm" -> "a"
      [] p = "b.png" -> "b"

\* C13 (SpecSeq): a call of analyze_image that returns gives the 4-tuple
\* (ratio, region label, annotated path, report path); the annotated path is
\* <annotated dir>/annotated_<stem>.jpg and the report path is
\* <reports dir>/report_<stem>.txt, <stem> being the stem of the source
\* file, and _last_analysis records these two paths.
AnalyzeReturnsTuple ==
    Returned(Caller) =>
        LET c == call[Caller]
            v == c.ret.value
        IN  /\ Len(v) = 4
            /\ v[1] = c.res.ratio
            /\ v[2] = c.res.region
            /\ v[3] = "output/annotated/annotated_" \o StemOfPath(c.path) \o ".jpg"
            /\ v[4] = "output/reports/report_" \o StemOfPath(c.path) \o ".txt"
            /\ last_analysis.annotation_path = v[3]
            /\ last_analysis.report_path = v[4]

\* The DICOM file a.dcm analysed: the outputs are named after "a".
AnalyzeReturnsTupleWitness ==
    /\ Returned(Caller)
    /\ call[Caller].path = "a.dcm"
    /\ call[Caller].ret.value[3] = "output/annotated/annotated_a.jpg"
    /\ call[Caller].ret.value[4] = "output/reports/report_a.txt"
    /\ last_analysis.file = "a.dcm"

\* C14 (SpecSeq): after a call of analyze_image that returns, the report
\* file of its source ends with a newline and holds, in this order, the file
\* name line, the ratio line, the density class line, the suspicion index
\* line, the region line and the disclaimer line, with the ratio, class,
\* index and region of that call.
ReportFileContent ==
    Returned(Caller) =>
        LET c == call[Caller]
            name == "output/reports/report_" \o StemOfPath(c.path) \o ".txt"
        IN  /\ name \in DOMAIN reports
            /\ reports[name].newline
            /\ [i \in 1..Len(reports[name].lines) |-> reports[name].lines[i][1]] =
                  << "File", "Suspicious area ratio", "Density class",
                     "Suspicion index (0-100)", "Region (centroid-based)", "Disclaimer" >>
            /\ reports[name].lines[1][2] = c.path
            /\ reports[name].lines[2][2] = c.ret.value[1]
            /\ reports[name].lines[3][2] = c.res.density
            /\ reports[name].lines[4][2] = c.res.suspicion_index
            /\ reports[name].lines[5][2] = c.ret.value[2]
            /\ reports[name].lines[6][2] = "Automatic analysis for research only."

\* A second analysis of b.png, of another image than the first: the report
\* holds the ratio of the second.
ReportFileContentWitness ==
    /\ Returned(Caller)
    /\ call[Caller].path = "b.png"
    /\ call[Caller].file = TwoRegions
    /\ last_analysis.file = "b.png"
    /\ reports["output/reports/report_b.txt"].lines[2][2] = call[Caller].res.ratio
    /\ reports["output/reports/report_b.txt"].newline

Listed(by) == probe.stage = "listed" /\ probe.by = by

\* C15 (SpecListing): a file of the input folder is listed by get_images, by
\* list_input_files and by get_target_images on an "all" request exactly
\* when its extension, in lower case, is one of .png .jpg .jpeg .bmp .tif
\* .tiff .dcm.
AcceptedExtensions ==
    /\ Listed("get_images") =>
          \A i \in 1..Len(probe.folder) :
              Lower(Ext(probe.folder[i].name)) \in
                      { ".png", ".jpg", ".jpeg", ".bmp", ".tif", ".tiff", ".dcm" }
                  <=> \E k \in 1..Len(probe.images) : probe.images[k] = probe.folder[i]
    /\ Listed("list_input_files") =>
          \A i \in 1..Len(probe.folder) :
              Lower(Ext(probe.folder[i].name)) \in
                      { ".png", ".jpg", ".jpeg", ".bmp", ".tif", ".tiff", ".dcm" }
                  <=> \E k \in 1..Len(probe.files) :
                          probe.files[k] = "input/" \o probe.folder[i].name
    /\ Listed("get_target_images") /\ probe.user_input = "review all" =>
          \A i \in 1..Len(probe.folder) :
              Lower(Ext(probe.folder[i].name)) \in
                      { ".png", ".jpg", ".jpeg", ".bmp", ".tif", ".tiff", ".dcm" }
                  <=> \E k \in 1..Len(probe.images) : probe.images[k] = probe.folder[i]

\* C16 (SpecDirs): ensure_dir on a directory that exists returns without
\* changing anything, and every call of ensure_dir, alone or overlapping
\* another call on the same missing directory, returns without an error with
\* the directory in place.
EnsureDirRaceSafe ==
    /\ [](\A t \in Threads :
             ens[t].pc = "done" => ~IsExc(ens[t].ret) /\ ens[t].path \in dirs)
    /\ [][ \A t \in Threads :
               EnsAtRest(ens[t]) /\ ens'[t].pc # "idle" /\ ens'[t] # ens[t]
                   /\ ens'[t].path \in dirs
               => ens'[t].pc = "done" /\ ~IsExc(ens'[t].ret) /\ dirs' = dirs ]_vars

\* Both callers found output/annotated and its parent missing; one made
\* them, the other met the directory at its os.mkdir and went on.
EnsureDirRaceSafeWitness ==
    /\ ens["t1"].pc = "done" /\ ens["t2"].pc = "done"
    /\ ens["t1"].path = ANNOTATED_DIR /\ ens["t2"].path = ANNOTATED_DIR
    /\ ~ens["t1"].tolerated /\ ens["t2"].tolerated
    /\ ANNOTATED_DIR \in dirs

\* C17 (SpecAgent): with no image in the input folder, process_message on
\* "analyze image" runs no analysis and its response, in lower case,
\* contains "couldn't find".
NoImageWarning ==
    reply.input = "analyze image" /\ get_images(input_dir) = <<>> =>
        /\ reply.analysed = <<>>
        /\ Says(reply.response, "couldn't find")

\* C18 (SpecAgent): the response of process_message to "how are you?", in
\* lower case, contains "thank" or "assist".
SmallTalkAnswer ==
    reply.input = "how are you?" =>
        Says(reply.response, "thank") \/ Says(reply.response, "assist")

\* C19 (SpecAgent): process_message answers in the first branch, in the
\* order analyze/analyse, greeting, small talk, show/view, scan/review,
\* fallback, whose keywords the message contains.  A message with a greeting
\* keyword and no analyze keyword gets the greeting text, which contains
\* "hello" or "assistant"; a message with no keyword gets the help text,
\* which contains "assistant" or "analyze"; neither runs an analysis.
BranchPrecedence ==
    reply.input # None =>
        LET text == TextOf[reply.input]
            analyze == AnyIn(AnalyzeKeywords, text)
            greeting == AnyIn(GENERIC_GREETINGS, text)
            question == AnyIn(GENERIC_QUESTIONS, text)
            show == AnyIn(ShowKeywords, text)
            scan == AnyIn(ScanKeywords, text)
        IN  /\ ~analyze /\ greeting =>
                  /\ reply.response = GreetingText
                  /\ Says(reply.response, "hello") \/ Says(reply.response, "assistant")
                  /\ reply.analysed = <<>>
            /\ ~analyze /\ ~greeting /\ question => reply.response = QuestionText
            /\ ~analyze /\ ~greeting /\ ~question /\ show =>
                  reply.response = NoAnnotatedText \/ reply.response[1] = Txt("Opening ")
            /\ ~analyze /\ ~greeting /\ ~question /\ ~show /\ scan =>
                  \/ reply.response = NoImagesText
                  \/ reply.response[1] = Txt("**Analysis completed for ")
            /\ ~analyze /\ ~greeting /\ ~question /\ ~show /\ ~scan =>
                  /\ reply.response = FallbackText
                  /\ Says(reply.response, "assistant") \/ Says(reply.response, "analyze")
                  /\ reply.analysed = <<>>

\* "show me this image" holds the greeting keyword "hi" and the keyword
\* "show": it is greeted, with a scan in the folder left unanalysed.
BranchPrecedenceWitness ==
    /\ reply.input = "show me this image"
    /\ reply.response = GreetingText
    /\ reply.analysed = <<>>
    /\ Len(input_dir) > 0
    /\ last_analysis.file = None

\* C20 (SpecStages): the mask kept by largest_component holds one
\* component, the first in label order among those of largest area in the
\* cleaned mask; a cleaned mask of no or one component is kept as it is.
LargestComponentKept ==
    "mask_main" \in DOMAIN probe =>
        LET comps == probe.mask.comps
            n == Len(comps)
        IN  /\ n <= 1 => probe.mask_main = probe.mask
            /\ n >= 2 =>
                  /\ Len(probe.mask_main.comps) = 1
                  /\ probe.mask_main.h = probe.mask.h /\ probe.mask_main.w = probe.mask.w
                  /\ \E i \in 1..n :
                        /\ probe.mask_main.comps[1] = comps[i]
                        /\ \A j \in 1..n : comps[j].area <= comps[i].area
                        /\ \A j \in 1..(i - 1) : comps[j].area < comps[i].area

\* Two regions of the same area in different places: the first is kept.
LargestComponentKeptWitness ==
    /\ probe.stage = "segmented"
    /\ Len(probe.mask.comps) = 2
    /\ probe.mask.comps[1].area = probe.mask.comps[2].area
    /\ probe.mask.comps[1] # probe.mask.comps[2]
    /\ probe.mask_main.comps = << probe.mask.comps[1] >>

\* C21 (SpecStages): every component of the cleaned mask has at least
\* MIN_COMPONENT_AREA pixels, and the cleaned mask holds, whole and in label
\* order, exactly the components of the mask after morphology that have at
\* least that many; the background is no component of it.
CleanedMaskComponents ==
    "gray" \in DOMAIN probe /\ "mask" \in DOMAIN probe =>
        LET blobs == probe.gray.blobs
            comps == probe.mask.comps
            kept == { i \in 1..Len(blobs) : blobs[i].area >= 250 }
        IN  /\ \A k \in 1..Len(comps) : comps[k].area >= 250
            /\ Len(comps) = Cardinality(kept)
            /\ \A i \in kept :
                  comps[Cardinality({ j \in kept : j <= i })] = blobs[i]
            /\ count_nonzero(probe.mask) <= probe.mask.h * probe.mask.w

\* A component of exactly the minimum area is kept and a smaller one of the
\* same image is dropped.
CleanedMaskComponentsWitness ==
    /\ probe.stage = "segmented"
    /\ Len(probe.gray.blobs) = 2
    /\ probe.gray.blobs[1].area = 249
    /\ probe.gray.blobs[2].area = 250
    /\ probe.mask.comps = << probe.gray.blobs[2] >>

\* C22 (SpecStages): the annotated image has one rectangle for each
\* component of the cleaned mask, the components the ratio counts, and none
\* for anything else, whatever the native resolution of the image.
AnnotatorMatchesSegmenter ==
    probe.stage = "annotated" =>
        probe.annotated_img.boxes = Len(probe.mask.comps)

\* C23 (SpecStages): the region label is "upper" when the centroid's cy is
\* below half the height and "lower" otherwise, "inner" when cx is below half
\* the width and "outer" otherwise, so a centroid on a mid-line is lower /
\* outer; the centroid of an empty mask is (width // 2, height // 2) and is
\* labelled by the same rule.
RegionLabel ==
    "centroid" \in DOMAIN probe =>
        LET cx == probe.centroid[1]
            cy == probe.centroid[2]
            h == probe.mask.h
            w == probe.mask.w
        IN  /\ 2 * cy < h /\ 2 * cx < w => probe.region = "upper-inner quadrant"
            /\ 2 * cy < h /\ 2 * cx >= w => probe.region = "upper-outer quadrant"
            /\ 2 * cy >= h /\ 2 * cx < w => probe.region = "lower-inner quadrant"
            /\ 2 * cy >= h /\ 2 * cx >= w => probe.region = "lower-outer quadrant"
            /\ probe.mask.comps = <<>> =>
                  /\ probe.centroid = << w \div 2, h \div 2 >>
                  /\ probe.region = "lower-outer quadrant"

\* A region whose centroid lies on both mid-lines of the working buffer.
RegionLabelWitness ==
    /\ probe.stage = "localized"
    /\ probe.mask.comps # <<>>
    /\ 2 * probe.centroid[1] = probe.mask.w
    /\ 2 * probe.centroid[2] = probe.mask.h
    /\ probe.region = "lower-outer quadrant"

\* C24 (SpecStages): the buffer preprocess returns is never empty; when the
\* margins computed from the crop fraction would use up the height or the
\* width the full image is returned, and otherwise exactly these margins are
\* taken off the four borders.
PreprocessNeverEmpty ==
    probe.stage = "cropped" =>
        LET crop_y == (1024 * probe.permille) \div 1000
            crop_x == (1536 * probe.permille) \div 1000
        IN  /\ probe.gray.h > 0 /\ probe.gray.w > 0
            /\ IF 2 * crop_y >= 1024 \/ 2 * crop_x >= 1536
               THEN probe.gray = [h |-> 1024, w |-> 1536]
               ELSE probe.gray = [h |-> 1024 - 2 * crop_y, w |-> 1536 - 2 * crop_x]

\* C25 (SpecStages): the suspicion index is 0.6 * ratio + 0.004 * variance
\* clipped to [0, 100], for the pipeline the variance of the Laplacian of
\* the dominant mask; it does not decrease when the ratio and the variance
\* do not, and with a variance of zero it is 0.6 * ratio.  (Thousandths.)
SuspicionIndexFormula ==
    /\ probe.stage = "indexed" =>
          /\ \A x \in { probe.a, probe.b } :
                /\ x.idx = IF 60 * x.ratio + 4 * x.v > 100000 THEN 100000
                           ELSE IF 60 * x.ratio + 4 * x.v < 0 THEN 0
                           ELSE 60 * x.ratio + 4 * x.v
                /\ x.idx >= 0 /\ x.idx <= 100000
                /\ x.v = 0 => x.idx = 60 * x.ratio
          /\ probe.a.ratio <= probe.b.ratio /\ probe.a.v <= probe.b.v
                => probe.a.idx <= probe.b.idx
    /\ probe.stage = "quantified" =>
          /\ probe.suspicion_index >= 0 /\ probe.suspicion_index <= 100000
          /\ probe.mask_main.comps = <<>> => probe.suspicion_index = 60 * probe.ratio
          /\ probe.mask_main.comps # <<>> =>
                probe.suspicion_index =
                    IF 60 * probe.ratio + 4 * probe.mask_main.comps[1].lapvar > 100000
                    THEN 100000
                    ELSE 60 * probe.ratio + 4 * probe.mask_main.comps[1].lapvar

\* A uniform mask beside a mask whose variance takes the index to the top.
SuspicionIndexFormulaWitness ==
    /\ probe.stage = "indexed"
    /\ probe.a.v = 0 /\ probe.a.ratio = 350 /\ probe.a.idx = 21000
    /\ probe.b.ratio = 800 /\ 60 * probe.b.ratio + 4 * probe.b.v > 100000
    /\ probe.b.idx = 100000

\* C26 (SpecAgent): the suspicion index the assistant writes in its chat
\* report of an analysis is the one analyze_image put in the technical
\* report and in _last_analysis for that analysis.
SuspicionIndexAgreement ==
    reply.input # None /\ Len(reply.analysed) = 1 /\ last_analysis.file # None =>
        \A i \in 1..(Len(reply.response) - 1) :
            reply.response[i] = Txt("- Suspicion index (0-100): ") =>
                reply.response[i + 1] = Num(last_analysis.suspicion_index)

\* C27 (SpecStem): while no analyze_image call is running, the annotated
\* image and the report at the paths _last_analysis records are those of the
\* analysis whose file, ratio, class, index and region it holds.
OutputsMatchLastAnalysis ==
    (\A t \in Threads : AtRest(call[t])) /\ last_analysis.file # None =>
        /\ last_analysis.annotation_path \in DOMAIN annotated
        /\ annotated[last_analysis.annotation_path].panel =
              << last_analysis.ratio, last_analysis.density, last_analysis.region >>
        /\ last_analysis.report_path \in DOMAIN reports
        /\ reports[last_analysis.report_path] =
              save_report(tech_report(last_analysis.file, last_analysis))

\* The same, for runs in which no write fails.
OutputsMatchWhenWritesSucceed ==
    (\A t \in Threads : Finished(t) /\ ~IsExc(call[t].ret) /\ call[t].img_write = "ok")
        /\ last_analysis.file # None =>
        /\ annotated[last_analysis.annotation_path].panel =
              << last_analysis.ratio, last_analysis.density, last_analysis.region >>
        /\ reports[last_analysis.report_path] =
              save_report(tech_report(last_analysis.file, last_analysis))

\* Positions of a part in a response
Places(response, part) == { k \in 1..Len(response) : response[k] = part }

TabStoresReplyOnce ==
    [][ (~ui.awaiting /\ Len(messages') > Len(messages)) =>
            /\ Len(messages') = Len(messages) + 2
            /\ messages'[Len(messages) + 1].role = "user"
            /\ messages'[Len(messages) + 2].role = "assistant" ]_vars

\* The line read in a step of the terminal, lower case.
Answered == TextOf[Strip(ui'.line)]

\* The step reads a line that is neither empty nor a slash command.
ReadsAnswer ==
    /\ ui'.tick # ui.tick
    /\ Strip(ui'.line) # ""
    /\ SubSeq(Strip(ui'.line), 1, 1) # "/"

\* C29 (SpecCli): send_email is called only on an affirmative answer read
\* while awaiting_email_consent is set, at most once per consent request;
\* an affirmative or a negative answer clears the flag; any other answer
\* keeps it and does not reach the agent; with the flag clear nothing
\* calls send_email.
ConsentGatesEmail ==
    /\ [](ui.mails <= 1)
    /\ [][ /\ ui'.mails > ui.mails =>
                  /\ ui.awaiting
                  /\ ReadsAnswer
                  /\ Answered \in Affirmative
                  /\ ui'.mails = ui.mails + 1
           /\ ~ui.awaiting => ui'.mails <= ui.mails
           /\ (ui.awaiting /\ ReadsAnswer) =>
                  /\ ui'.awaiting = (Answered \notin Affirmative \cup Negative)
                  /\ messages' = messages
                  /\ reply' = reply
                  /\ agent' = agent ]_vars

\* A consent was asked for, "Yes" was typed with blanks around it, and one
\* e-mail went out.
ConsentGatesEmailWitness ==
    /\ ui.mails = 1
    /\ ~ui.awaiting
    /\ ui.line = " Yes "
    /\ HasLLM(reply.response)

====
